---------------------------- MODULE Spec2Model ----------------------------
(***************************************************************************)
(* A model of scripts/process_arr_waterfall.py: the ARR waterfall          *)
(* processor that reads a wide grid, finds the metric sections, picks the  *)
(* trailing 12 period columns with data in the ARR section, maps that      *)
(* window onto the other sections and writes three sheets.                 *)
(*                                                                         *)
(* Conventions.  Column indices are the 0-based indices of the script; a   *)
(* Python list is a TLA+ sequence, so element i of the list is l[i + 1].   *)
(* A text cell is the sequence of its characters, so that split('.'),      *)
(* int() and float() work on the text as the script does.  A float cell    *)
(* holds its value in hundredths (2025.1 is 202510, 2025.01 is 202501).    *)
(* A column's data rows (rows 1 and later) are summarised by the number of *)
(* their non-empty cells; the data rows the scripts filter and reshape are  *)
(* the sequence rows.  The pivot scripts process_arr_waterfall_FINAL.py    *)
(* and process_arr_waterfall_PIVOTED.py are modelled further down, and so   *)
(* are the wiki cleanup scripts and the sync monitor.                      *)
(***************************************************************************)
EXTENDS Integers, Sequences, FiniteSets, TLC

VARIABLES
    df,                     \* the grid read from the workbook: a sequence of columns
    min_data_rows,          \* the min_data_rows argument of the selector
    pc,                     \* the statement of the script to run next
    fault,                  \* the uncaught exception that ended the run, or "none"
    warnings,               \* the diagnostics the run has printed
    sections,               \* find_section_indices(all_cols)
    arr_indices,            \* the trailing window of the ARR section
    arr_all_periods,        \* the period columns of the ARR section
    netchange_all_periods,  \* the period columns of the Net Change section
    reason_all_periods,     \* the period columns of the Change Reason section
    relative_start_pos,     \* the window's offset within the ARR period columns
    netchange_indices,      \* the window mapped onto the Net Change section
    reason_indices,         \* the window mapped onto the Change Reason section
    start_period,           \* <<start_year, start_month>>
    period_names,           \* the period names: generated YYYY_MM names, or the
                            \* fixed 'YYYY.MM' list of the pivot scripts
    sheets,                 \* the three data frames built for output
    written,                \* the sheets written to the output file
    script,                 \* the script that runs
    rows,                   \* the data rows of the grid (rows 1 and later)
    df_filtered,            \* the rows the pivot scripts keep
    period_dates,           \* period name -> date, as the list of the dates
    arr_pivoted,            \* the long ARR table
    netchange_pivoted,      \* the long Net Change table
    reason_pivoted,         \* the long Change Reason table
    hierarchy,              \* the wiki: the ancestor titles of each listed page
    remote,                 \* the wiki: the outcome of the calls made for each listed page
    removed,                \* the listed pages the wiki has removed
    page_i,                 \* the position in the list of the page to process next
    deleted_count,          \* the pages the cleanup script reports as deleted
    not_found_count,        \* the pages it reports as not found or failed
    safe_count,             \* the pages it reports as protected
    sql_view,               \* the records of the SQL view, by account
    salesforce,             \* the Salesforce org: the sf command's return code and records
    sql_data,               \* get_sql_data(SAMPLE_IDS)
    sf_data,                \* get_salesforce_data(SAMPLE_IDS)
    mismatches,             \* compare_records(sql_data, sf_data)
    report                  \* what generate_report printed

\* what the pivot scripts compute; the main script only reads rows
pivot_vars == <<script, rows, df_filtered, period_dates, arr_pivoted,
                netchange_pivoted, reason_pivoted>>

\* what the main script alone computes
main_vars == <<df, min_data_rows, warnings, sections, arr_indices,
               arr_all_periods, netchange_all_periods, reason_all_periods,
               relative_start_pos, netchange_indices, reason_indices,
               start_period, sheets>>

\* what the cleanup scripts read and change
cleanup_vars == <<hierarchy, remote, removed, page_i, deleted_count,
                  not_found_count, safe_count>>

\* what the sync monitor reads and computes
monitor_vars == <<sql_view, salesforce, sql_data, sf_data, mismatches, report>>

\* the state of the scripts that are no part of the ARR processing
tool_vars == <<cleanup_vars, monitor_vars>>

vars == <<main_vars, pivot_vars, tool_vars, pc, fault, period_names, written>>

---------------------------------------------------------------------------
(* Program constants *)

MIN_DATA_ROWS == 1000

WINDOW == 12

PRODUCT_COL == 35

YEAR_MIN == 2017

YEAR_MAX == 2030

None == -1

ARR_LABEL == "ARR by Period by Product"

NETCHANGE_LABEL == "Net Change by Period"

REASON_LABEL == "Net Change Reason by Period"

FILTERS_LABEL == "Net Change Filters"

---------------------------------------------------------------------------
(* Bounds of the model *)

\* the largest number of period columns a section of an enumerated grid has
MaxCands == 14

\* the width of the ARR section whose every set of dense columns is enumerated
MaxDense == 13

\* the longest section of mixed header cells enumerated for the detector
MaxMixed == 4

\* the largest number of data rows of a grid of the pivot scripts
MaxRows == 2

\* the longest pattern of cells repeated along a row of the pivot scripts
MaxPat == 2

---------------------------------------------------------------------------
(* Text: Python str, int(), float(), split('.') and str(float) *)

Digit == <<"0", "1", "2", "3", "4", "5", "6", "7", "8", "9">>

IsDigit(c) == \E d \in 1..10 : Digit[d] = c

DigitVal(c) == (CHOOSE d \in 1..10 : Digit[d] = c) - 1

IsDigits(s) == Len(s) > 0 /\ \A i \in 1..Len(s) : IsDigit(s[i])

RECURSIVE IntOf(_)
\* int(s) of a string of decimal digits
IntOf(s) ==
    IF Len(s) = 0 THEN 0
    ELSE 10 * IntOf(SubSeq(s, 1, Len(s) - 1)) + DigitVal(s[Len(s)])

RECURSIVE NatChars(_)
\* str(n) of a natural number
NatChars(n) ==
    IF n < 10 THEN <<Digit[n + 1]>>
    ELSE NatChars(n \div 10) \o <<Digit[(n % 10) + 1]>>

\* the position of the first '.' at or after position from, or 0
DotFrom(s, from) ==
    IF \E i \in from..Len(s) : s[i] = "."
    THEN CHOOSE i \in from..Len(s) :
            s[i] = "." /\ \A j \in from..(i - 1) : s[j] # "."
    ELSE 0

HasDot(s) == DotFrom(s, 1) # 0

\* s.split('.')[0]
Part0(s) ==
    IF HasDot(s) THEN SubSeq(s, 1, DotFrom(s, 1) - 1) ELSE s

\* s.split('.')[1], for a string that holds a '.'
Part1(s) ==
    LET d == DotFrom(s, 1)
        e == DotFrom(s, d + 1)
    IN  IF e = 0 THEN SubSeq(s, d + 1, Len(s)) ELSE SubSeq(s, d + 1, e - 1)

\* str(x) of a float held in hundredths: the shortest decimal form
StrOfFloat(v) ==
    LET frac == v % 100
    IN  NatChars(v \div 100) \o <<".">> \o
        (IF frac % 10 = 0 THEN <<Digit[(frac \div 10) + 1]>>
         ELSE <<Digit[(frac \div 10) + 1], Digit[(frac % 10) + 1]>>)

---------------------------------------------------------------------------
(* Cells and columns of the grid *)

StrCell(s) == [t |-> "str", s |-> s, v |-> 0]

FloatCell(v) == [t |-> "float", s |-> <<>>, v |-> v]

IntCell(n) == [t |-> "int", s |-> <<>>, v |-> n]

\* an empty cell: pandas reads it as NaN, which is a float
NaNCell == [t |-> "nan", s |-> <<>>, v |-> 0]

Column(label, header, nonnull) ==
    [label |-> label, header |-> header, nonnull |-> nonnull]

\* list(df.columns)
all_cols(d) == [i \in 1..Len(d) |-> d[i].label]

\* range(a, b) as a list
Range(a, b) == [i \in 1..(IF b > a THEN b - a ELSE 0) |-> a + i - 1]

\* range(a, b) raises TypeError when a bound is None
RangeRaises(a, b) == a = None \/ b = None

\* the label in lower case
LowerLabel(label) ==
    IF label = ARR_LABEL THEN "arr by period by product"
    ELSE IF label = NETCHANGE_LABEL THEN "net change by period"
    ELSE IF label = REASON_LABEL THEN "net change reason by period"
    ELSE "net change filters"

\* the label with a blank before and after it
PaddedLabel(label) ==
    IF label = ARR_LABEL THEN " ARR by Period by Product "
    ELSE IF label = NETCHANGE_LABEL THEN " Net Change by Period "
    ELSE IF label = REASON_LABEL THEN " Net Change Reason by Period "
    ELSE " Net Change Filters "

\* a match that ignores the case of the letters
LastIndexOfLabel_anycase(columns, label) ==
    IF \E i \in 1..Len(columns) : columns[i] \in {label, LowerLabel(label)}
    THEN (CHOOSE i \in 1..Len(columns) :
            /\ columns[i] \in {label, LowerLabel(label)}
            /\ \A j \in (i + 1)..Len(columns) : columns[j] \notin {label, LowerLabel(label)}) - 1
    ELSE None

\* the last index at which the column list holds the label, or None
LastIndexOfLabel(columns, label) ==
    IF \E i \in 1..Len(columns) : columns[i] = label
    THEN (CHOOSE i \in 1..Len(columns) :
            columns[i] = label /\ \A j \in (i + 1)..Len(columns) : columns[j] # label) - 1
    ELSE None

\* a classifier whose sections start at 0 when the label is not found
find_section_indices_zero(columns) ==
    [arr_start       |-> IF LastIndexOfLabel(columns, ARR_LABEL) = None
                         THEN 0 ELSE LastIndexOfLabel(columns, ARR_LABEL),
     netchange_start |-> IF LastIndexOfLabel(columns, NETCHANGE_LABEL) = None
                         THEN 0 ELSE LastIndexOfLabel(columns, NETCHANGE_LABEL),
     reason_start    |-> IF LastIndexOfLabel(columns, REASON_LABEL) = None
                         THEN 0 ELSE LastIndexOfLabel(columns, REASON_LABEL),
     filters_start   |-> IF LastIndexOfLabel(columns, FILTERS_LABEL) = None
                         THEN 0 ELSE LastIndexOfLabel(columns, FILTERS_LABEL)]

find_section_indices(columns) ==
    [arr_start       |-> LastIndexOfLabel(columns, ARR_LABEL),
     netchange_start |-> LastIndexOfLabel(columns, NETCHANGE_LABEL),
     reason_start    |-> LastIndexOfLabel(columns, REASON_LABEL),
     filters_start   |-> LastIndexOfLabel(columns, FILTERS_LABEL)]

\* float(header_val.split('.')[0]) raises ValueError
YearPartRaises(header_val) == ~IsDigits(Part0(header_val.s))

\* the test of one header cell in get_all_period_indices
is_valid_period(header_val) ==
    IF header_val.t = "int" THEN YEAR_MIN <= header_val.v /\ header_val.v <= YEAR_MAX
    ELSE IF header_val.t = "float"
         THEN YEAR_MIN * 100 <= header_val.v /\ header_val.v <= YEAR_MAX * 100
    ELSE IF header_val.t = "str"
         THEN /\ HasDot(header_val.s)
              /\ ~YearPartRaises(header_val)
              /\ YEAR_MIN <= IntOf(Part0(header_val.s))
              /\ IntOf(Part0(header_val.s)) <= YEAR_MAX
    ELSE FALSE

\* a detector that ends the scan at the first header that raises (break for
\* continue in the except clause)
get_all_period_indices_break(d, section_start, next_section_start) ==
    LET raises(idx) == /\ d[idx + 1].header.t = "str"
                       /\ HasDot(d[idx + 1].header.s)
                       /\ YearPartRaises(d[idx + 1].header)
    IN  SelectSeq(Range(section_start, next_section_start),
                  LAMBDA idx : /\ is_valid_period(d[idx + 1].header)
                               /\ \A j \in section_start..idx : ~raises(j))

get_all_period_indices(d, section_start, next_section_start) ==
    SelectSeq(Range(section_start, next_section_start),
              LAMBDA idx : is_valid_period(d[idx + 1].header))

\* a count over all rows, the header row included: df[col_name].notna().sum()
non_null_count_with_header(d, idx) ==
    d[idx + 1].nonnull + (IF d[idx + 1].header.t # "nan" THEN 1 ELSE 0)

\* col_data.notna().sum() over df.iloc[1:]
non_null_count(d, idx) == d[idx + 1].nonnull

valid_period_indices(d, section_start, next_section_start, min_rows) ==
    SelectSeq(get_all_period_indices(d, section_start, next_section_start),
              LAMBDA idx : non_null_count(d, idx) >= min_rows)

\* a selector that keeps one column too many: l[-13:]
Last13(l) == SubSeq(l, IF Len(l) > WINDOW THEN Len(l) - WINDOW ELSE 1, Len(l))

\* a selector that keeps the first 12 columns: l[:12]
First12(l) == SubSeq(l, 1, WINDOW)

\* l[-12:]
Last12(l) == SubSeq(l, Len(l) - WINDOW + 1, Len(l))

get_trailing_12_indices_with_data(d, section_start, next_section_start, min_rows) ==
    LET valid == valid_period_indices(d, section_start, next_section_start, min_rows)
    IN  IF Len(valid) >= WINDOW THEN Last12(valid) ELSE valid

\* l.index(x), for x in l
IndexOf(l, x) ==
    (CHOOSE i \in 1..Len(l) : l[i] = x /\ \A j \in 1..(i - 1) : l[j] # x) - 1

\* l[a:a + 12]
Slice12(l, a) ==
    SubSeq(l, a + 1, IF a + WINDOW < Len(l) THEN a + WINDOW ELSE Len(l))

get_period_value(d, col_idx) == d[col_idx + 1].header


\* f"{month:02d}" for a month of at most two digits
Pad2(m) == <<Digit[(m \div 10) + 1], Digit[(m % 10) + 1]>>

\* the name with the month not padded: f"{year}_{month}"
period_name_unpadded(year, month) == NatChars(year) \o <<"_">> \o NatChars(month)

\* f"{year}_{month:02d}"
period_name(year, month) == NatChars(year) \o <<"_">> \o Pad2(month)

calculate_period_names(start_year, start_month, count) ==
    [k \in 1..count |->
        LET total_months == start_year * 12 + start_month - 1 + (k - 1)
        IN  period_name(total_months \div 12, (total_months % 12) + 1)]

\* a month parser that reads a one-character month as a dropped trailing zero
month_of_tens(month_str) ==
    IF Len(month_str) = 1 THEN 10 * IntOf(month_str) ELSE IntOf(month_str)

\* int(month_str) of the text after the separator
month_of(month_str) == IntOf(month_str)

\* the (year, month) of a period value, or the exception int() or parts[1] raises
detect_start_period_from_first_value(period_val) ==
    IF period_val.t = "str"
    THEN IF ~IsDigits(Part0(period_val.s))
         THEN [exc |-> "ValueError", year |-> 0, month |-> 0]
         ELSE IF ~HasDot(period_val.s)
         THEN [exc |-> "IndexError", year |-> 0, month |-> 0]
         ELSE IF ~IsDigits(Part1(period_val.s))
         THEN [exc |-> "ValueError", year |-> 0, month |-> 0]
         ELSE [exc |-> "none", year |-> IntOf(Part0(period_val.s)),
               month |-> month_of(Part1(period_val.s))]
    ELSE IF period_val.t = "float"
    THEN LET val_str == StrOfFloat(period_val.v)
         IN  [exc |-> "none", year |-> IntOf(Part0(val_str)),
              month |-> month_of(Part1(val_str))]
    ELSE IF period_val.t = "int"
    THEN [exc |-> "none", year |-> period_val.v, month |-> 1]
    ELSE [exc |-> "ValueError", year |-> 0, month |-> 0]

\* one data row of the grid: the identifier cell (column 0), the Product text
\* (column 35) and the cells of the row in the period columns of the three
\* sections
Row(id, product, arr, netchange, reason) ==
    [id |-> id, product |-> product, arr |-> arr, netchange |-> netchange,
     reason |-> reason]

\* row 0 of the grid, the header row, seen as a row of the data frame
header_row(d) ==
    Row(d[1].header, d[PRODUCT_COL + 1].header.s, <<>>, <<>>, <<>>)

\* line 250: df[df[sf_num_col] != 'SF #'], over the header row and the data rows
df_data(d, data_rows) ==
    SelectSeq(<<header_row(d)>> \o data_rows, LAMBDA r : r.id # StrCell(<<"S", "F", " ", "#">>))

\* one output data frame: its rows, the source columns it holds and their new
\* names
Sheet(metric, indices, names, data) ==
    [metric |-> metric,
     rows   |-> data,
     cols   |-> indices,
     names  |-> [pos \in 1..Len(indices) |-> names[pos]]]

NoSheets == <<>>

---------------------------------------------------------------------------
(* The main script, one action per block of statements.  An uncaught       *)
(* exception ends the run: fault holds its type and pc stays at the block  *)
(* that raised it.                                                         *)

Running(at) == pc = at /\ fault = "none"

\* lines 188-202: section boundaries and the identifier columns
FindSections ==
    /\ Running("find_sections")
    /\ sections' = find_section_indices(all_cols(df))
    /\ IF Len(df) <= PRODUCT_COL
       THEN fault' = "IndexError" /\ pc' = pc
       ELSE fault' = fault /\ pc' = "select"
    /\ UNCHANGED <<tool_vars, pivot_vars, df, min_data_rows, warnings, arr_indices, arr_all_periods,
                   netchange_all_periods, reason_all_periods, relative_start_pos,
                   netchange_indices, reason_indices, start_period, period_names,
                   sheets, written>>

\* lines 204-206: the trailing window of the ARR section
SelectTrailing ==
    /\ Running("select")
    /\ IF RangeRaises(sections.arr_start, sections.netchange_start)
       THEN /\ fault' = "TypeError"
            /\ UNCHANGED <<pc, arr_indices, warnings>>
       ELSE /\ arr_indices' = get_trailing_12_indices_with_data(
                    df, sections.arr_start, sections.netchange_start, min_data_rows)
            /\ warnings' =
                 IF Len(valid_period_indices(df, sections.arr_start,
                            sections.netchange_start, min_data_rows)) >= WINDOW
                 THEN warnings
                 ELSE warnings \cup {"WARNING: Only found periods with data"}
            /\ pc' = "detect_all"
            /\ fault' = fault
    /\ UNCHANGED <<tool_vars, pivot_vars, df, min_data_rows, sections, arr_all_periods,
                   netchange_all_periods, reason_all_periods, relative_start_pos,
                   netchange_indices, reason_indices, start_period, period_names,
                   sheets, written>>

\* lines 213-216: the period columns of each section
DetectPeriods ==
    /\ Running("detect_all")
    /\ arr_all_periods' =
         get_all_period_indices(df, sections.arr_start, sections.netchange_start)
    /\ IF RangeRaises(sections.netchange_start, sections.reason_start)
       THEN /\ fault' = "TypeError"
            /\ UNCHANGED <<pc, netchange_all_periods, reason_all_periods>>
       ELSE /\ netchange_all_periods' =
                 get_all_period_indices(df, sections.netchange_start, sections.reason_start)
            /\ IF RangeRaises(sections.reason_start, sections.filters_start)
               THEN /\ fault' = "TypeError"
                    /\ UNCHANGED <<pc, reason_all_periods>>
               ELSE /\ reason_all_periods' =
                         get_all_period_indices(df, sections.reason_start,
                                                sections.filters_start)
                    /\ pc' = "offset"
                    /\ fault' = fault
    /\ UNCHANGED <<tool_vars, pivot_vars, df, min_data_rows, warnings, sections, arr_indices,
                   relative_start_pos, netchange_indices, reason_indices,
                   start_period, period_names, sheets, written>>

\* an offset counted from 1
relative_offset_from_one(all_periods, indices) == IndexOf(all_periods, indices[1]) + 1

\* arr_all_periods.index(arr_indices[0])
relative_offset(all_periods, indices) == IndexOf(all_periods, indices[1])

\* lines 218-223: the relative position of the window in the ARR section
ComputeOffset ==
    /\ Running("offset")
    /\ IF Len(arr_indices) = 0
       THEN /\ fault' = "IndexError"
            /\ UNCHANGED <<pc, relative_start_pos>>
       ELSE /\ relative_start_pos' = relative_offset(arr_all_periods, arr_indices)
            /\ pc' = "map"
            /\ fault' = fault
    /\ UNCHANGED <<tool_vars, pivot_vars, df, min_data_rows, warnings, sections, arr_indices,
                   arr_all_periods, netchange_all_periods, reason_all_periods,
                   netchange_indices, reason_indices, start_period, period_names,
                   sheets, written>>

\* a window taken from the section itself, its last 12 period columns
map_window_trailing(all_periods, start_pos) ==
    SubSeq(all_periods, IF Len(all_periods) > WINDOW THEN Len(all_periods) - WINDOW + 1 ELSE 1,
           Len(all_periods))

\* all_periods[relative_start_pos:relative_start_pos + 12]
map_window(all_periods, start_pos) == Slice12(all_periods, start_pos)

\* lines 225-227: the same relative positions in the other sections
MapSections ==
    /\ Running("map")
    /\ netchange_indices' = map_window(netchange_all_periods, relative_start_pos)
    /\ reason_indices' = map_window(reason_all_periods, relative_start_pos)
    /\ pc' = "report"
    /\ UNCHANGED <<tool_vars, pivot_vars, df, min_data_rows, fault, warnings, sections, arr_indices,
                   arr_all_periods, netchange_all_periods, reason_all_periods,
                   relative_start_pos, start_period, period_names, sheets, written>>

\* lines 229-237: print the mapped ranges (indices[0], indices[-1]) and take the
\* column names
ReportMapped ==
    /\ Running("report")
    /\ IF Len(netchange_indices) = 0 \/ Len(reason_indices) = 0
       THEN fault' = "IndexError" /\ pc' = pc
       ELSE fault' = fault /\ pc' = "detect_start"
    /\ UNCHANGED <<tool_vars, pivot_vars, df, min_data_rows, warnings, sections, arr_indices,
                   arr_all_periods, netchange_all_periods, reason_all_periods,
                   relative_start_pos, netchange_indices, reason_indices,
                   start_period, period_names, sheets, written>>

\* lines 239-241: the starting period, from the first ARR window column
DetectStart ==
    /\ Running("detect_start")
    /\ LET first_period_val == get_period_value(df, arr_indices[1])
           r == detect_start_period_from_first_value(first_period_val)
       IN  IF r.exc # "none"
           THEN /\ fault' = r.exc
                /\ UNCHANGED <<pc, start_period>>
           ELSE /\ start_period' = <<r.year, r.month>>
                /\ pc' = "period_names"
                /\ fault' = fault
    /\ UNCHANGED <<tool_vars, pivot_vars, df, min_data_rows, warnings, sections, arr_indices,
                   arr_all_periods, netchange_all_periods, reason_all_periods,
                   relative_start_pos, netchange_indices, reason_indices,
                   period_names, sheets, written>>

\* lines 243-247: the names of the 12 periods
NamePeriods ==
    /\ Running("period_names")
    /\ period_names' = calculate_period_names(start_period[1], start_period[2], WINDOW)
    /\ pc' = "build"
    /\ UNCHANGED <<tool_vars, pivot_vars, df, min_data_rows, fault, warnings, sections, arr_indices,
                   arr_all_periods, netchange_all_periods, reason_all_periods,
                   relative_start_pos, netchange_indices, reason_indices,
                   start_period, sheets, written>>

\* lines 249-323: the three data frames, their period columns renamed
BuildSheets ==
    /\ Running("build")
    /\ sheets' = <<Sheet("ARR", arr_indices, period_names, df_data(df, rows)),
                   Sheet("NetChange", netchange_indices, period_names,
                         df_data(df, rows)),
                   Sheet("ChangeReason", reason_indices, period_names,
                         df_data(df, rows))>>
    /\ pc' = "write"
    /\ UNCHANGED <<tool_vars, pivot_vars, df, min_data_rows, fault, warnings, sections, arr_indices,
                   arr_all_periods, netchange_all_periods, reason_all_periods,
                   relative_start_pos, netchange_indices, reason_indices,
                   start_period, period_names, written>>

\* lines 332-340: the output workbook
WriteOutput ==
    /\ Running("write")
    /\ written' = {sheets[k].metric : k \in 1..Len(sheets)}
    /\ pc' = "done"
    /\ UNCHANGED <<tool_vars, pivot_vars, df, min_data_rows, fault, warnings, sections, arr_indices,
                   arr_all_periods, netchange_all_periods, reason_all_periods,
                   relative_start_pos, netchange_indices, reason_indices,
                   start_period, period_names, sheets>>

---------------------------------------------------------------------------
(* The pivot scripts, process_arr_waterfall_FINAL.py and                   *)
(* process_arr_waterfall_PIVOTED.py.  They address the grid by fixed       *)
(* positions (identifier column 0, Product column 35, ten period columns   *)
(* per section), so the grid they read is the sequence rows.  A record of  *)
(* a long table holds the join key, the identifier, the Product, the       *)
(* period and the value; CustomerName is carried along unchanged and left  *)
(* out.  The field row is the position of the record's source row in       *)
(* df_filtered; it is no column of the output and tells the records of     *)
(* equal rows apart.                                                       *)

FINAL == "process_arr_waterfall_FINAL.py"

PIVOTED == "process_arr_waterfall_PIVOTED.py"

MAIN == "process_arr_waterfall.py"
CLEANUP_PAGES == "cleanup_old_confluence_pages.py"
CLEANUP_CURSOR == "cleanup_old_cursor_pages.py"
MONITOR == "monitor_dw2sf_sync.py"

\* period_names of the pivot scripts: '2025.01' to '2025.10'
pivot_period_names ==
    [m \in 1..10 |-> NatChars(2025) \o <<".">> \o Pad2(m)]

\* pd.to_numeric(x, errors='coerce').notna(): a number, or a text of digits
to_numeric_notna(cell) ==
    \/ cell.t \in {"int", "float"}
    \/ cell.t = "str" /\ IsDigits(cell.s)

\* df[pd.to_numeric(df[sf_num_col], errors='coerce').notna()]
filter_numeric(data_rows) ==
    SelectSeq(data_rows, LAMBDA r : to_numeric_notna(r.id))

\* calendar.isleap
isleap(year) == year % 4 = 0 /\ (year % 100 # 0 \/ year % 400 = 0)

\* February always has 28 days
monthrange_no_leap(year, month) ==
    IF month = 2 THEN 28
    ELSE IF month \in {4, 6, 9, 11} THEN 30 ELSE 31

\* calendar.monthrange(year, month)[1]: the number of days of the month
monthrange(year, month) ==
    IF month = 2 THEN (IF isleap(year) THEN 29 ELSE 28)
    ELSE IF month \in {4, 6, 9, 11} THEN 30 ELSE 31

\* the number of parts of s.split('.')
split_count(s) == Cardinality({i \in 1..Len(s) : s[i] = "."}) + 1

\* f"{n:04d}" of a natural number
Pad4(n) ==
    IF n < 10 THEN <<"0", "0", "0">> \o NatChars(n)
    ELSE IF n < 100 THEN <<"0", "0">> \o NatChars(n)
    ELSE IF n < 1000 THEN <<"0">> \o NatChars(n)
    ELSE NatChars(n)

\* period_to_last_day: '2025.01' to '2025-01-31'.  The unpacking of the split
\* needs exactly two parts, int() needs digits, monthrange a month in 1..12.
period_to_last_day(period_str) ==
    IF split_count(period_str) # 2
    THEN [exc |-> "ValueError", date |-> <<>>]
    ELSE IF ~IsDigits(Part0(period_str)) \/ ~IsDigits(Part1(period_str))
    THEN [exc |-> "ValueError", date |-> <<>>]
    ELSE LET year  == IntOf(Part0(period_str))
             month == IntOf(Part1(period_str))
         IN  IF month \notin 1..12
             THEN [exc |-> "IllegalMonthError", date |-> <<>>]
             ELSE [exc |-> "none",
                   date |-> Pad4(year) \o <<"-">> \o Pad2(month) \o <<"-">>
                            \o Pad2(monthrange(year, month))]

\* Series.astype(str) of one cell
astype_str(cell) ==
    IF cell.t = "str" THEN cell.s
    ELSE IF cell.t = "int" THEN NatChars(cell.v)
    ELSE IF cell.t = "float" THEN StrOfFloat(cell.v)
    ELSE <<"n", "a", "n">>

\* the key without the separator
account_product_key_joined(id, product) == astype_str(id) \o product

\* AccountNumber.astype(str) + '_' + Product.astype(str)
account_product_key(id, product) == astype_str(id) \o <<"_">> \o product

\* the join key column of a script: only the FINAL script makes one
key_of(s, r) ==
    IF s = FINAL THEN account_product_key(r.id, r.product) ELSE <<>>

\* the Period column of a script: the FINAL script maps the names to dates
period_of(s, names, dates, p) ==
    IF s = FINAL THEN dates[p] ELSE names[p]

\* melt leaving out the records of empty cells
melt_dropna(s, frame, section, names, dates) ==
    SelectSeq([k \in 1..(Len(names) * Len(frame)) |->
                  LET p == ((k - 1) \div Len(frame)) + 1
                      i == ((k - 1) % Len(frame)) + 1
                  IN  [key     |-> key_of(s, frame[i]),
                       id      |-> frame[i].id,
                       product |-> frame[i].product,
                       period  |-> period_of(s, names, dates, p),
                       value   |-> frame[i][section][p],
                       row     |-> i]],
              LAMBDA x : x.value.t # "nan")

\* DataFrame.melt of one section: for each period in turn, a record for every
\* row of the frame
melt(s, frame, section, names, dates) ==
    [k \in 1..(Len(names) * Len(frame)) |->
        LET p == ((k - 1) \div Len(frame)) + 1
            i == ((k - 1) % Len(frame)) + 1
        IN  [key     |-> key_of(s, frame[i]),
             id      |-> frame[i].id,
             product |-> frame[i].product,
             period  |-> period_of(s, names, dates, p),
             value   |-> frame[i][section][p],
             row     |-> i]]

\* the characters of the texts of the model, in code point order
Ascii ==
    <<" ", "#", "-", ".", "0", "1", "2", "3", "4", "5", "6", "7", "8", "9",
      "A", "B", "F", "S", "T", "U", "Y", "_", "a", "l", "n", "o", "p", "t">>

\* ord(c), for the characters of Ascii
ord == [c \in {Ascii[k] : k \in 1..Len(Ascii)} |-> CHOOSE k \in 1..Len(Ascii) : Ascii[k] = c]

RECURSIVE less_from(_, _, _)
\* a[k:] < b[k:], for strings equal before position k
less_from(a, b, k) ==
    IF k > Len(b) THEN FALSE
    ELSE IF k > Len(a) THEN TRUE
    ELSE IF a[k] = b[k] THEN less_from(a, b, k + 1)
    ELSE ord[a[k]] < ord[b[k]]

\* a < b on Python strings
str_less(a, b) == less_from(a, b, 1)

\* x before y on the columns AccountNumber, Product, Period; the identifiers
\* of the rows kept by the filter are numbers
key_less(x, y) ==
    \/ x.id.v < y.id.v
    \/ /\ x.id.v = y.id.v
       /\ \/ str_less(x.product, y.product)
          \/ x.product = y.product /\ str_less(x.period, y.period)

RECURSIVE insert_sorted(_, _, _)
\* x put into the sorted records after the last of the first k that is not
\* after x
insert_sorted(sorted, x, k) ==
    IF k = 0 \/ ~key_less(x, sorted[k])
    THEN SubSeq(sorted, 1, k) \o <<x>> \o SubSeq(sorted, k + 1, Len(sorted))
    ELSE insert_sorted(sorted, x, k - 1)

RECURSIVE sort_from(_, _, _)
\* the records from position i on, put one by one into the sorted records
sort_from(recs, sorted, i) ==
    IF i > Len(recs) THEN sorted
    ELSE sort_from(recs, insert_sorted(sorted, recs[i], Len(sorted)), i + 1)

\* the sort left out: the records in the order of melt
sort_values_skipped(recs) == recs

\* sort_values(['AccountNumber', 'Product', 'Period']).reset_index(drop=True):
\* a stable sort, records with equal keys keep their order
sort_values(recs) == sort_from(recs, <<>>, 1)

\* the filter left out: the records of empty cells kept
notna_kept(recs) == recs

\* table[table[value].notna()]
notna(recs) == SelectSeq(recs, LAMBDA x : x.value.t # "nan")

\* the replacement made wherever the text holds a '-'
replace_containing(recs) ==
    [k \in 1..Len(recs) |->
        IF recs[k].value.t = "str" /\ \E j \in 1..Len(recs[k].value.s) : recs[k].value.s[j] = "-"
        THEN [recs[k] EXCEPT !.value = StrCell(<<"N", "o", " ", "C", "h", "a", "n", "g", "e">>)]
        ELSE recs[k]]

\* Series.replace('-', 'No Change') on the value column: whole values only
replace(recs) ==
    [k \in 1..Len(recs) |->
        IF recs[k].value = StrCell(<<"-">>)
        THEN [recs[k] EXCEPT !.value = StrCell(<<"N", "o", " ", "C", "h", "a", "n", "g", "e">>)]
        ELSE recs[k]]

\* sorted(values.unique()) raises TypeError when it has to compare an empty
\* cell (NaN, a float) or a number with a text
sorted_raises(recs) ==
    \E j, k \in 1..Len(recs) :
        recs[j].value.t = "str" /\ recs[k].value.t # "str"

\* FINAL lines 54-58, PIVOTED lines 53-57: the rows with a numeric identifier
FilterRows ==
    /\ Running("filter")
    /\ df_filtered' = filter_numeric(rows)
    /\ pc' = IF script = FINAL THEN "dates" ELSE "pivot_arr"
    /\ UNCHANGED <<tool_vars, main_vars, script, rows, period_dates, arr_pivoted,
                   netchange_pivoted, reason_pivoted, fault, period_names, written>>

\* FINAL lines 60-76: the date of every period name
MapDates ==
    /\ Running("dates")
    /\ IF \E p \in 1..Len(period_names) : period_to_last_day(period_names[p]).exc # "none"
       THEN /\ fault' = "ValueError"
            /\ UNCHANGED <<pc, period_dates>>
       ELSE /\ period_dates' =
                 [p \in 1..Len(period_names) |-> period_to_last_day(period_names[p]).date]
            /\ pc' = "pivot_arr"
            /\ fault' = fault
    /\ UNCHANGED <<tool_vars, main_vars, script, rows, df_filtered, arr_pivoted,
                   netchange_pivoted, reason_pivoted, period_names, written>>

\* FINAL lines 85-129, PIVOTED lines 66-100: the long ARR table, sorted, the
\* records of empty cells removed
PivotARR ==
    /\ Running("pivot_arr")
    /\ arr_pivoted' =
         notna(sort_values(melt(script, df_filtered, "arr", period_names, period_dates)))
    /\ pc' = "pivot_netchange"
    /\ UNCHANGED <<tool_vars, main_vars, script, rows, df_filtered, period_dates,
                   netchange_pivoted, reason_pivoted, fault, period_names, written>>

\* FINAL lines 138-177, PIVOTED lines 102-137: the long Net Change table, sorted
PivotNetChange ==
    /\ Running("pivot_netchange")
    /\ netchange_pivoted' =
         sort_values(melt(script, df_filtered, "netchange", period_names, period_dates))
    /\ pc' = "pivot_reason"
    /\ UNCHANGED <<tool_vars, main_vars, script, rows, df_filtered, period_dates,
                   arr_pivoted, reason_pivoted, fault, period_names, written>>

\* FINAL lines 186-229, PIVOTED lines 139-178: the long Change Reason table,
\* sorted, '-' replaced; then the sorted unique reasons are printed
PivotReason ==
    /\ Running("pivot_reason")
    /\ reason_pivoted' =
         replace(sort_values(melt(script, df_filtered, "reason", period_names,
                                  period_dates)))
    /\ IF sorted_raises(reason_pivoted')
       THEN fault' = "TypeError" /\ pc' = pc
       ELSE fault' = fault /\ pc' = "write_pivot"
    /\ UNCHANGED <<tool_vars, main_vars, script, rows, df_filtered, period_dates,
                   arr_pivoted, netchange_pivoted, period_names, written>>

\* FINAL lines 238-246, PIVOTED lines 187-195: the output workbook
WritePivot ==
    /\ Running("write_pivot")
    /\ written' = {"ARR", "NetChange", "ChangeReason"}
    /\ pc' = "done"
    /\ UNCHANGED <<tool_vars, main_vars, script, rows, df_filtered, period_dates,
                   arr_pivoted, netchange_pivoted, reason_pivoted, fault,
                   period_names>>

---------------------------------------------------------------------------
(* The grids the runs start from.  A grid is the 36 identifier columns     *)
(* (indices 0..35, Product at 35), then the ARR, Net Change and Change     *)
(* Reason sections, then the Filters column.  The first column of a        *)
(* section carries the section's label; pandas names the others itself.    *)

Chars_SF == <<"S", "F", " ", "#">>

Chars_Total == <<"T", "o", "t", "a", "l">>

\* a text with a '.' whose first part is no number
Chars_FY == <<"F", "Y", ".", "2", "5">>

IdCols ==
    [i \in 1..(PRODUCT_COL + 1) |-> Column("Unnamed", StrCell(Chars_SF), MIN_DATA_ROWS)]

\* the period j months after (y, m), as <<year, month>>
AddMonths(y, m, j) ==
    LET t == y * 12 + (m - 1) + j
    IN  <<t \div 12, (t % 12) + 1>>

\* the header cell of period (y, m): "2025.01", "2025.1" or the number 2025.01
PeriodCell(fmt, y, m) ==
    IF fmt = "text" THEN StrCell(NatChars(y) \o <<".">> \o Pad2(m))
    ELSE IF fmt = "short" THEN StrCell(NatChars(y) \o <<".">> \o NatChars(m))
    ELSE FloatCell(y * 100 + m)

\* the header cells of n consecutive periods from (y, m)
PeriodCells(fmt, y, m, n) ==
    [j \in 1..n |-> PeriodCell(fmt, AddMonths(y, m, j - 1)[1], AddMonths(y, m, j - 1)[2])]

\* a section: one column per header cell; the columns at the 0-based positions
\* of dense hold hi non-empty data cells, the others lo.  A section with no
\* header cell is its title column alone.
SectionCols(label, cells, dense, lo, hi) ==
    IF Len(cells) = 0 THEN <<Column(label, NaNCell, 0)>>
    ELSE [j \in 1..Len(cells) |->
            Column(IF j = 1 THEN label ELSE "Unnamed", cells[j],
                   IF (j - 1) \in dense THEN hi ELSE lo)]

\* labels: the labels of the first columns of the four sections
Grid(labels, arr, dense, lo, hi, netchange, reason) ==
    IdCols
    \o SectionCols(labels[1], arr, dense, lo, hi)
    \o SectionCols(labels[2], netchange, 0..(Len(netchange) - 1), lo, hi)
    \o SectionCols(labels[3], reason, 0..(Len(reason) - 1), lo, hi)
    \o <<Column(labels[4], StrCell(Chars_Total), MIN_DATA_ROWS)>>

AllLabels == <<ARR_LABEL, NETCHANGE_LABEL, REASON_LABEL, FILTERS_LABEL>>

\* the first period of the enumerated sections
FirstPeriod == <<2024, 11>>

FirstYear == FirstPeriod[1]

FirstMonth == FirstPeriod[2]

\* the positions a..b-1 of a section of n columns, with at most one position
\* strictly inside taken out
BlockPatterns(n) ==
    {(t[1]..(t[2] - 1)) \ t[3] :
        t \in {u \in (0..n) \X (0..n) \X ({{}} \cup {{k} : k \in 0..(n - 1)}) :
                 u[1] <= u[2] /\ \A k \in u[3] : u[1] < k /\ k < u[2] - 1}}

\* sections of equal width n, the ARR section's dense columns given
GridWindow(n, dense) ==
    Grid(AllLabels, PeriodCells("text", FirstYear, FirstMonth, n), dense,
         MIN_DATA_ROWS - 1, MIN_DATA_ROWS,
         PeriodCells("text", FirstYear, FirstMonth, n),
         PeriodCells("text", FirstYear, FirstMonth, n))

\* sections of different widths, the ARR section with 12 dense columns in a
\* row from position k
GridSizes(k, nN, nR) ==
    Grid(AllLabels, PeriodCells("text", FirstYear, FirstMonth, MaxCands),
         k..(k + WINDOW - 1), 0, MIN_DATA_ROWS,
         PeriodCells("text", FirstYear, FirstMonth, nN),
         PeriodCells("text", FirstYear, FirstMonth, nR))

\* full sections of 12 columns, only the section labels of present in place
GridLabels(present) ==
    Grid([i \in 1..4 |-> IF i \in present THEN AllLabels[i] ELSE "Unnamed"],
         PeriodCells("text", FirstYear, FirstMonth, WINDOW), 0..(WINDOW - 1),
         0, MIN_DATA_ROWS,
         PeriodCells("text", FirstYear, FirstMonth, WINDOW),
         PeriodCells("text", FirstYear, FirstMonth, WINDOW))

\* full sections of 12 columns from period (y, m), the header cells in format fmt
GridFormats(fmt, y, m) ==
    Grid(AllLabels, PeriodCells(fmt, y, m, WINDOW), 0..(WINDOW - 1),
         0, MIN_DATA_ROWS,
         PeriodCells(fmt, y, m, WINDOW), PeriodCells(fmt, y, m, WINDOW))

Formats == {"text", "short", "float"}

\* the data rows of the grids of the main script: an account row, a row with
\* an empty identifier, the header literal again, and a totals row.  The main
\* script copies the period columns whole, so their cells are not held.
SourceRows ==
    <<Row(IntCell(1), <<"A">>, <<>>, <<>>, <<>>),
      Row(NaNCell, <<"A">>, <<>>, <<>>, <<>>),
      Row(StrCell(Chars_SF), <<"A">>, <<>>, <<>>, <<>>),
      Row(StrCell(Chars_Total), <<"A">>, <<>>, <<>>, <<>>)>>

\* the cleanup scripts and the sync monitor are not running
ToolsIdle ==
    /\ hierarchy = <<>>
    /\ remote = <<>>
    /\ removed = {}
    /\ page_i = 0
    /\ deleted_count = 0
    /\ not_found_count = 0
    /\ safe_count = 0
    /\ sql_view = <<>>
    /\ salesforce = <<>>
    /\ sql_data = <<>>
    /\ sf_data = <<>>
    /\ mismatches = <<>>
    /\ report = "none"

\* the pivot scripts have not run
PivotIdle ==
    /\ df_filtered = <<>>
    /\ period_dates = <<>>
    /\ arr_pivoted = <<>>
    /\ netchange_pivoted = <<>>
    /\ reason_pivoted = <<>>

\* the state at the start of the script, for grid g and threshold t
Start(g, t) ==
    /\ ToolsIdle
    /\ script = MAIN
    /\ rows = SourceRows
    /\ PivotIdle
    /\ df = g
    /\ min_data_rows = t
    /\ pc = "find_sections"
    /\ fault = "none"
    /\ warnings = {}
    /\ sections = [arr_start |-> None, netchange_start |-> None,
                   reason_start |-> None, filters_start |-> None]
    /\ arr_indices = <<>>
    /\ arr_all_periods = <<>>
    /\ netchange_all_periods = <<>>
    /\ reason_all_periods = <<>>
    /\ relative_start_pos = None
    /\ netchange_indices = <<>>
    /\ reason_indices = <<>>
    /\ start_period = <<>>
    /\ period_names = <<>>
    /\ sheets = NoSheets
    /\ written = {}

Init ==
    \/ \E n \in 0..MaxCands : \E dense \in BlockPatterns(n) :
          Start(GridWindow(n, dense), MIN_DATA_ROWS)
    \/ \E k \in 0..(MaxCands - WINDOW), nN \in 0..MaxCands, nR \in 0..MaxCands :
          Start(GridSizes(k, nN, nR), MIN_DATA_ROWS)
    \/ \E present \in SUBSET (1..4) :
          Start(GridLabels(present), MIN_DATA_ROWS)
    \/ \E fmt \in Formats, y \in FirstYear..(FirstYear + 1), m \in 1..12 :
          Start(GridFormats(fmt, y, m), MIN_DATA_ROWS)

Next ==
    \/ FindSections
    \/ SelectTrailing
    \/ DetectPeriods
    \/ ComputeOffset
    \/ MapSections
    \/ ReportMapped
    \/ DetectStart
    \/ NamePeriods
    \/ BuildSheets
    \/ WriteOutput

Spec == Init /\ [][Next]_vars

TypeOK ==
    /\ pc \in {"find_sections", "select", "detect_all", "offset", "map", "report",
               "detect_start", "period_names", "build", "write", "done",
               "filter", "dates", "pivot_arr", "pivot_netchange", "pivot_reason",
               "write_pivot", "cleanup",
               "get_sql", "get_salesforce", "compare_records", "generate_report"}
    /\ fault \in {"none", "TypeError", "IndexError", "ValueError"}
    /\ script \in {MAIN, FINAL, PIVOTED, CLEANUP_PAGES, CLEANUP_CURSOR, MONITOR}
    /\ report \in {"none", "ALL RECORDS MATCH", "mismatches", "error"}

---------------------------------------------------------------------------
(* The trailing-window selector on its own: the script up to line 206, for *)
(* every choice of dense columns and for thresholds around the counts.     *)

\* an ARR section of n columns with the dense columns given, before two
\* sections of one column
GridDensity(n, dense) ==
    Grid(AllLabels, PeriodCells("text", FirstYear, FirstMonth, n), dense,
         MIN_DATA_ROWS - 1, MIN_DATA_ROWS,
         PeriodCells("text", FirstYear, FirstMonth, 1),
         PeriodCells("text", FirstYear, FirstMonth, 1))

Thresholds == {0, MIN_DATA_ROWS - 1, MIN_DATA_ROWS, MIN_DATA_ROWS + 1}

InitSel ==
    \/ \E dense \in SUBSET (0..(MaxDense - 1)) :
          Start(GridDensity(MaxDense, dense), MIN_DATA_ROWS)
    \/ \E n \in 0..MaxDense, t \in Thresholds : \E dense \in BlockPatterns(n) :
          Start(GridDensity(n, dense), t)

NextSel ==
    \/ FindSections
    \/ SelectTrailing

SpecSel == InitSel /\ [][NextSel]_vars

---------------------------------------------------------------------------
(* The period column detector on its own: the script up to line 216, on    *)
(* sections that mix period headers with other cells, and on a section of  *)
(* one period header for every year, month and format.                     *)

\* header cells of the kinds a section holds: two periods, a title, an empty
\* cell, a text that is no number before its '.', a year before the range
MixedCells ==
    {PeriodCell("text", 2025, 3), PeriodCell("float", 2025, 4), StrCell(Chars_Total),
     NaNCell, StrCell(Chars_FY), PeriodCell("text", 2016, 12)}

\* the sequences of 1..n elements of S
SeqsUpTo(S, n) == UNION {[1..k -> S] : k \in 1..n}

\* three sections with the same header cells, all columns dense
GridCells(cells) ==
    Grid(AllLabels, cells, 0..(Len(cells) - 1), 0, MIN_DATA_ROWS, cells, cells)

InitDetect ==
    \/ \E cells \in SeqsUpTo(MixedCells, MaxMixed) :
          Start(GridCells(cells), MIN_DATA_ROWS)
    \/ \E fmt \in Formats, y \in YEAR_MIN..YEAR_MAX, m \in 1..12 :
          Start(GridCells(<<PeriodCell(fmt, y, m)>>), MIN_DATA_ROWS)

NextDetect ==
    \/ FindSections
    \/ SelectTrailing
    \/ DetectPeriods

SpecDetect == InitDetect /\ [][NextDetect]_vars

----------------------------------------------------------------------------
(* The resolver of the starting period on every kind of header cell the    *)
(* detector takes for a period: the script up to line 241, on sections of  *)
(* one period column.                                                      *)

\* header cells of a year: the year as an integer, the year as a float, and
\* texts with a month of 13, of 00 and with nothing after the '.'
YearCells(y) ==
    {IntCell(y), FloatCell(y * 100),
     StrCell(NatChars(y) \o <<".", "1", "3">>),
     StrCell(NatChars(y) \o <<".", "0", "0">>),
     StrCell(NatChars(y) \o <<".">>)}

InitStart ==
    \E y \in YEAR_MIN..YEAR_MAX :
        \/ \E cell \in YearCells(y) :
              Start(GridCells(<<cell>>), MIN_DATA_ROWS)
        \/ \E fmt \in Formats, m \in 1..12 :
              Start(GridCells(<<PeriodCell(fmt, y, m)>>), MIN_DATA_ROWS)

NextStart ==
    \/ FindSections
    \/ SelectTrailing
    \/ DetectPeriods
    \/ ComputeOffset
    \/ MapSections
    \/ ReportMapped
    \/ DetectStart

SpecStart == InitStart /\ [][NextStart]_vars

---------------------------------------------------------------------------
(* The pivot scripts on small grids: up to MaxRows data rows with every    *)
(* kind of identifier, and one account row with every pattern of cells.    *)

\* the ten cells of a row in one section: the cells of pat, repeated
Cyclic(pat) == [p \in 1..Len(pivot_period_names) |-> pat[((p - 1) % Len(pat)) + 1]]

IdCells ==
    {IntCell(1), IntCell(12), NaNCell, StrCell(Chars_SF), StrCell(Chars_Total)}

Products == {<<"A">>, <<"2", "A">>, <<"A", "_", "B">>}

ArrValues == {IntCell(100), NaNCell}

NetChangeValues == {IntCell(5), NaNCell, StrCell(<<"-">>)}

ReasonValues ==
    {StrCell(<<"-">>), StrCell(<<"U", "p">>), StrCell(<<"U", "-", "p">>), NaNCell}

\* a row with an ARR value and a net change in every other period
PlainRow(id, product) ==
    Row(id, product, Cyclic(<<IntCell(100), NaNCell>>),
        Cyclic(<<IntCell(5), NaNCell>>),
        Cyclic(<<StrCell(<<"-">>), StrCell(<<"U", "p">>)>>))

\* the state at the start of a pivot script s on the data rows data, with the
\* period names names
PivotStart(s, data, names) ==
    /\ ToolsIdle
    /\ script = s
    /\ rows = data
    /\ PivotIdle
    /\ period_names = names
    /\ pc = "filter"
    /\ fault = "none"
    /\ written = {}
    /\ df = <<>>
    /\ min_data_rows = MIN_DATA_ROWS
    /\ warnings = {}
    /\ sections = [arr_start |-> None, netchange_start |-> None,
                   reason_start |-> None, filters_start |-> None]
    /\ arr_indices = <<>>
    /\ arr_all_periods = <<>>
    /\ netchange_all_periods = <<>>
    /\ reason_all_periods = <<>>
    /\ relative_start_pos = None
    /\ netchange_indices = <<>>
    /\ reason_indices = <<>>
    /\ start_period = <<>>
    /\ sheets = NoSheets

InitPivot ==
    \E s \in {FINAL, PIVOTED} :
        \/ \E k \in 0..MaxRows : \E ids \in [1..k -> IdCells], prods \in [1..k -> Products] :
              PivotStart(s, [i \in 1..k |-> PlainRow(ids[i], prods[i])],
                         pivot_period_names)
        \/ \E a \in SeqsUpTo(ArrValues, MaxPat), n \in SeqsUpTo(NetChangeValues, MaxPat) :
              PivotStart(s, <<Row(IntCell(1), <<"A">>, Cyclic(a), Cyclic(n),
                                  Cyclic(<<StrCell(<<"-">>)>>))>>,
                         pivot_period_names)
        \/ \E r \in SeqsUpTo(ReasonValues, MaxPat) :
              PivotStart(s, <<PlainRow(IntCell(12), <<"A">>),
                              Row(IntCell(1), <<"A">>, Cyclic(<<IntCell(100)>>),
                                  Cyclic(<<StrCell(<<"-">>)>>), Cyclic(r))>>,
                         pivot_period_names)

NextPivot ==
    \/ FilterRows
    \/ MapDates
    \/ PivotARR
    \/ PivotNetChange
    \/ PivotReason
    \/ WritePivot

SpecPivot == InitPivot /\ [][NextPivot]_vars

---------------------------------------------------------------------------
(* The section finder on grids whose titles are out of place: a section    *)
(* label in another case, padded with blanks or missing, the title text in *)
(* the header row (row 0) instead, and the sections in every order.  The   *)
(* script runs up to line 216.                                             *)

\* the section labels as the texts of cells
LabelChars ==
    <<
      <<"A", "R", "R", " ", "b", "y", " ", "P", "e", "r", "i", "o", "d",
        " ", "b", "y", " ", "P", "r", "o", "d", "u", "c", "t">>,
      <<"N", "e", "t", " ", "C", "h", "a", "n", "g", "e", " ", "b", "y",
        " ", "P", "e", "r", "i", "o", "d">>,
      <<"N", "e", "t", " ", "C", "h", "a", "n", "g", "e", " ", "R", "e",
        "a", "s", "o", "n", " ", "b", "y", " ", "P", "e", "r", "i", "o",
        "d">>,
      <<"N", "e", "t", " ", "C", "h", "a", "n", "g", "e", " ", "F", "i",
        "l", "t", "e", "r", "s">>
    >>

\* the ways a section's title column is labelled
LabelForms == {"exact", "lower", "padded", "unnamed"}

LabelAs(form, label) ==
    IF form = "exact" THEN label
    ELSE IF form = "lower" THEN LowerLabel(label)
    ELSE IF form = "padded" THEN PaddedLabel(label)
    ELSE "Unnamed"

\* the header cells of a section of n periods; with titled, the title text is
\* the header-row cell of the section's first column
TitledCells(sec, titled, n) ==
    (IF titled THEN <<StrCell(LabelChars[sec])>> ELSE <<>>)
    \o PeriodCells("text", FirstYear, FirstMonth, n)

\* sections of n periods; the title column of section sec is labelled in the
\* given form, and holds the title text in the header row if titled
GridTitled(sec, form, titled, n) ==
    Grid([i \in 1..4 |-> IF i = sec THEN LabelAs(form, AllLabels[i]) ELSE AllLabels[i]],
         TitledCells(1, titled /\ sec = 1, n), 0..n, 0, MIN_DATA_ROWS,
         TitledCells(2, titled /\ sec = 2, n),
         TitledCells(3, titled /\ sec = 3, n))

\* the sections of n periods each in the order given: order[k] is the section
\* (1 ARR, 2 Net Change, 3 Change Reason, 4 Filters) at place k
GridOrdered(order, n) ==
    LET cols(sec) ==
            IF sec = 4 THEN <<Column(AllLabels[4], StrCell(Chars_Total), MIN_DATA_ROWS)>>
            ELSE SectionCols(AllLabels[sec], PeriodCells("text", FirstYear, FirstMonth, n),
                             0..(n - 1), 0, MIN_DATA_ROWS)
    IN  IdCols \o cols(order[1]) \o cols(order[2]) \o cols(order[3]) \o cols(order[4])

\* the orders of the four sections
Orders == {o \in [1..4 -> 1..4] : \A i, j \in 1..4 : i # j => o[i] # o[j]}

InitLayout ==
    \/ \E sec \in 1..4, form \in LabelForms, titled \in BOOLEAN, n \in 1..MaxMixed :
          Start(GridTitled(sec, form, titled, n), MIN_DATA_ROWS)
    \/ \E order \in Orders, n \in 1..MaxMixed :
          Start(GridOrdered(order, n), MIN_DATA_ROWS)

NextLayout ==
    \/ FindSections
    \/ SelectTrailing
    \/ DetectPeriods

SpecLayout == InitLayout /\ [][NextLayout]_vars

---------------------------------------------------------------------------
(* period_to_last_day on its own: the FINAL script up to line 76, its list *)
(* of period names being one name of any year and month of the range,      *)
(* written 'YYYY.MM' or, as calculate_period_names writes it, 'YYYY_MM'.   *)

InitDates ==
    \E y \in YEAR_MIN..YEAR_MAX, m \in 1..12 :
        \/ PivotStart(FINAL, <<PlainRow(IntCell(1), <<"A">>)>>,
                      <<PeriodCell("text", y, m).s>>)
        \/ PivotStart(FINAL, <<PlainRow(IntCell(1), <<"A">>)>>,
                      calculate_period_names(y, m, 1))

NextDates ==
    \/ FilterRows
    \/ MapDates

SpecDates == InitDates /\ [][NextDates]_vars

(***************************************************************************)
(* The wiki cleanup scripts: cleanup_old_confluence_pages.py and           *)
(* cleanup_old_cursor_pages.py.  Each walks a fixed list of page titles,   *)
(* looks the page up, reads its ancestors and removes it when the          *)
(* ancestors show it to be the old copy.  The wiki is the environment: the *)
(* ancestors of every listed page and the outcome of every call are fixed  *)
(* when the script starts.                                                 *)
(***************************************************************************)
OLD_PAGES_TO_DELETE ==
    <<"Getting Started", "Quick Start Guide", "Team Collaboration", "Git Setup",
      "Confluence Integration">>

OLD_CURSOR_PAGES_TO_DELETE ==
    <<"Cursor Onboarding Checklist", "Azure Key Vault Integration Guide",
      "MCP Configuration Security Guide", "Quick Start: Model Context Protocol (MCP)">>

\* the list the running cleanup script walks
pages_to_delete ==
    IF script = CLEANUP_PAGES THEN OLD_PAGES_TO_DELETE ELSE OLD_CURSOR_PAGES_TO_DELETE

\* title in parent_titles
title_in(title, parent_titles) ==
    \E i \in 1..Len(parent_titles) : parent_titles[i] = title

\* every found page is taken for the old copy
is_old_copy_unguarded(s, parent_titles) ==
    TRUE

\* the test of a found page's parent_titles that leads to remove_page
is_old_copy(s, parent_titles) ==
    IF s = CLEANUP_PAGES
    THEN ~title_in("Onboarding", parent_titles)
    ELSE /\ title_in("Onboarding", parent_titles)
         /\ ~title_in("Cursor AI Setup", parent_titles)

\* one pass of the loop over the listed titles: the body of the try block
\* and its except clause
ProcessPage ==
    /\ pc = "cleanup"
    /\ page_i < Len(pages_to_delete)
    /\ LET page_title    == pages_to_delete[page_i + 1]
           calls         == remote[page_title]
           parent_titles == hierarchy[page_title]
       IN  /\ page_i' = page_i + 1
           /\ IF calls.find = "raise" THEN
                  /\ not_found_count' = not_found_count + 1
                  /\ UNCHANGED <<removed, deleted_count, safe_count>>
              ELSE IF calls.find = "none" THEN
                  /\ not_found_count' = not_found_count + 1
                  /\ UNCHANGED <<removed, deleted_count, safe_count>>
              ELSE IF calls.ancestors = "raise" THEN
                  /\ not_found_count' = not_found_count + 1
                  /\ UNCHANGED <<removed, deleted_count, safe_count>>
              ELSE IF script = CLEANUP_CURSOR /\ title_in("Cursor AI Setup", parent_titles) THEN
                  /\ safe_count' = safe_count + 1
                  /\ UNCHANGED <<removed, deleted_count, not_found_count>>
              ELSE IF is_old_copy(script, parent_titles) THEN
                  /\ removed' = IF calls.remove = "raise" THEN removed
                                ELSE removed \cup {page_title}
                  /\ IF calls.remove = "ok"
                     THEN deleted_count' = deleted_count + 1 /\ UNCHANGED not_found_count
                     ELSE not_found_count' = not_found_count + 1 /\ UNCHANGED deleted_count
                  /\ UNCHANGED safe_count
              ELSE UNCHANGED <<removed, deleted_count, not_found_count, safe_count>>
    /\ UNCHANGED <<main_vars, pivot_vars, monitor_vars, hierarchy, remote, pc, fault,
                   period_names, written>>

\* the summary printed after the loop
CleanupSummary ==
    /\ pc = "cleanup"
    /\ page_i = Len(pages_to_delete)
    /\ pc' = "done"
    /\ UNCHANGED <<main_vars, pivot_vars, tool_vars, fault, period_names, written>>

\* no ARR script is running
ArrIdle ==
    /\ rows = <<>>
    /\ PivotIdle
    /\ df = <<>>
    /\ min_data_rows = MIN_DATA_ROWS
    /\ warnings = {}
    /\ sections = [arr_start |-> None, netchange_start |-> None,
                   reason_start |-> None, filters_start |-> None]
    /\ arr_indices = <<>>
    /\ arr_all_periods = <<>>
    /\ netchange_all_periods = <<>>
    /\ reason_all_periods = <<>>
    /\ relative_start_pos = None
    /\ netchange_indices = <<>>
    /\ reason_indices = <<>>
    /\ start_period = <<>>
    /\ period_names = <<>>
    /\ sheets = NoSheets
    /\ written = {}
    /\ fault = "none"

\* the sync monitor is not running
MonitorIdle ==
    /\ sql_view = <<>>
    /\ salesforce = <<>>
    /\ sql_data = <<>>
    /\ sf_data = <<>>
    /\ mismatches = <<>>
    /\ report = "none"

\* the ancestor titles a listed page can have, root first
AncestorPaths ==
    {<<>>, <<"Home">>, <<"Home", "Onboarding">>, <<"Home", "onboarding">>,
     <<"Home", "Onboarding", "Cursor AI Setup">>, <<"Home", "Cursor AI Setup">>}

\* the outcomes of get_page_by_title, get_page_ancestors and remove_page for
\* one page; remove_page can fail before or after the wiki removed the page
CallOutcomes ==
    {[find |-> "page", ancestors |-> "ok", remove |-> "ok"],
     [find |-> "page", ancestors |-> "ok", remove |-> "raise"],
     [find |-> "page", ancestors |-> "ok", remove |-> "raise_after"],
     [find |-> "page", ancestors |-> "raise", remove |-> "ok"],
     [find |-> "none", ancestors |-> "ok", remove |-> "ok"],
     [find |-> "raise", ancestors |-> "ok", remove |-> "ok"]}

\* the state after the connection to the wiki is made, the listed pages
\* alternating between two situations
CleanupStart(s, titles, pathA, pathB, callsA, callsB) ==
    /\ script = s
    /\ ArrIdle
    /\ MonitorIdle
    /\ pc = "cleanup"
    /\ hierarchy = [t \in {titles[i] : i \in 1..Len(titles)} |->
                       IF \E i \in 1..Len(titles) : titles[i] = t /\ i % 2 = 1
                       THEN pathA ELSE pathB]
    /\ remote = [t \in {titles[i] : i \in 1..Len(titles)} |->
                    IF \E i \in 1..Len(titles) : titles[i] = t /\ i % 2 = 1
                    THEN callsA ELSE callsB]
    /\ removed = {}
    /\ page_i = 0
    /\ deleted_count = 0
    /\ not_found_count = 0
    /\ safe_count = 0

InitCleanup ==
    \E pathA \in AncestorPaths, pathB \in AncestorPaths,
       callsA \in CallOutcomes, callsB \in CallOutcomes :
        \/ CleanupStart(CLEANUP_PAGES, OLD_PAGES_TO_DELETE, pathA, pathB, callsA, callsB)
        \/ CleanupStart(CLEANUP_CURSOR, OLD_CURSOR_PAGES_TO_DELETE, pathA, pathB,
                        callsA, callsB)

NextCleanup ==
    \/ ProcessPage
    \/ CleanupSummary

SpecCleanup == InitCleanup /\ [][NextCleanup]_vars

(***************************************************************************)
(* The sync monitor, monitor_dw2sf_sync.py: it fetches the sample accounts *)
(* from the SQL view and from Salesforce, compares the fields of the       *)
(* accounts and prints a report.  The two sources are the environment: a   *)
(* source holds a record for some of the sample accounts, the SQL query    *)
(* can raise and the sf command can end with a return code other than 0.   *)
(* A record is a function from the compared fields to cells.               *)
(***************************************************************************)
\* the list is in the order sorted() gives its texts
SAMPLE_IDS == <<"1", "10", "100", "1000", "10000">>

COMPARE_FIELDS ==
    <<"CAPDB_Score_Num__c", "CAPDB_Grade_syncari__c", "Greenspace_SAM__c",
      "Whitespace_SAM__c", "EDW_Account_Status__c", "FH_Product_Status__c",
      "Emergency_Reporting_Product_Status__c">>

\* the records the sf command returned, none when its return code is not 0
get_salesforce_data(org) ==
    IF org.returncode # 0 THEN <<>> ELSE org.records

\* match of one field: two numbers (taken in hundredths) no more than 0.01
\* apart, else equal texts of the two values
field_match(sql_value, sf_value) ==
    IF sql_value.t \in {"int", "float"} /\ sf_value.t \in {"int", "float"}
    THEN LET x == IF sql_value.t = "int" THEN 100 * sql_value.v ELSE sql_value.v
             y == IF sf_value.t = "int" THEN 100 * sf_value.v ELSE sf_value.v
         IN  ~((IF x >= y THEN x - y ELSE y - x) > 1)
    ELSE astype_str(sql_value) = astype_str(sf_value)

\* the fields of two records that do not match, in the order of COMPARE_FIELDS
record_mismatches(sql_record, sf_record) ==
    SelectSeq(COMPARE_FIELDS, LAMBDA f : ~field_match(sql_record[f], sf_record[f]))

\* the mismatch list: the accounts of all_ids found in both sources with a
\* field that does not match; an account missing from a source is passed over
compare_records(sql, sf) ==
    LET all_ids == SelectSeq(SAMPLE_IDS, LAMBDA id : id \in DOMAIN sql \cup DOMAIN sf)
        both    == SelectSeq(all_ids, LAMBDA id : id \in DOMAIN sql /\ id \in DOMAIN sf)
        differ  == SelectSeq(both, LAMBDA id : record_mismatches(sql[id], sf[id]) # <<>>)
    IN  [k \in 1..Len(differ) |->
            [eso_id |-> differ[k],
             fields |-> record_mismatches(sql[differ[k]], sf[differ[k]])]]

\* main line 270: the SQL query; an exception ends main in its except clause
GetSqlData ==
    /\ pc = "get_sql"
    /\ IF sql_view.ok
       THEN /\ sql_data' = sql_view.records
            /\ pc' = "get_salesforce"
            /\ report' = report
       ELSE /\ sql_data' = sql_data
            /\ pc' = "done"
            /\ report' = "error"
    /\ UNCHANGED <<main_vars, pivot_vars, cleanup_vars, sql_view, salesforce, sf_data,
                   mismatches, fault, period_names, written>>

\* main line 271: the Salesforce query
GetSalesforceData ==
    /\ pc = "get_salesforce"
    /\ sf_data' = get_salesforce_data(salesforce)
    /\ pc' = "compare_records"
    /\ UNCHANGED <<main_vars, pivot_vars, cleanup_vars, sql_view, salesforce, sql_data,
                   mismatches, report, fault, period_names, written>>

\* main line 274
CompareRecords ==
    /\ pc = "compare_records"
    /\ mismatches' = compare_records(sql_data, sf_data)
    /\ pc' = "generate_report"
    /\ UNCHANGED <<main_vars, pivot_vars, cleanup_vars, sql_view, salesforce, sql_data,
                   sf_data, report, fault, period_names, written>>

\* main line 275: generate_report
GenerateReport ==
    /\ pc = "generate_report"
    /\ report' = IF mismatches = <<>> THEN "ALL RECORDS MATCH" ELSE "mismatches"
    /\ pc' = "done"
    /\ UNCHANGED <<main_vars, pivot_vars, cleanup_vars, sql_view, salesforce, sql_data,
                   sf_data, mismatches, fault, period_names, written>>

\* the record of an account whose scores are n and whose grade is g
AccountRecord(n, g) ==
    [f \in {COMPARE_FIELDS[i] : i \in 1..Len(COMPARE_FIELDS)} |->
        IF f \in {"CAPDB_Score_Num__c", "Greenspace_SAM__c", "Whitespace_SAM__c"}
        THEN IntCell(n)
        ELSE StrCell(g)]

\* the records a source holds of the accounts ids; account changed, if held,
\* has the record rec, the others the record of score 50 and grade 'A'
SourceRecords(ids, changed, rec) ==
    [id \in ids |-> IF id = changed THEN rec ELSE AccountRecord(50, <<"A">>)]

\* the state at the start of main
MonitorStart(view, org) ==
    /\ script = MONITOR
    /\ ArrIdle
    /\ hierarchy = <<>>
    /\ remote = <<>>
    /\ removed = {}
    /\ page_i = 0
    /\ deleted_count = 0
    /\ not_found_count = 0
    /\ safe_count = 0
    /\ pc = "get_sql"
    /\ sql_view = view
    /\ salesforce = org
    /\ sql_data = <<>>
    /\ sf_data = <<>>
    /\ mismatches = <<>>
    /\ report = "none"

InitMonitor ==
    \E in_sql \in SUBSET {SAMPLE_IDS[i] : i \in 1..Len(SAMPLE_IDS)},
       in_sf \in SUBSET {SAMPLE_IDS[i] : i \in 1..Len(SAMPLE_IDS)},
       rec \in {AccountRecord(50, <<"A">>), AccountRecord(51, <<"A">>),
                AccountRecord(50, <<"B">>)},
       ok \in BOOLEAN, returncode \in {0, 1} :
        MonitorStart([ok |-> ok, records |-> SourceRecords(in_sql, "10", rec)],
                     [returncode |-> returncode,
                      records |-> SourceRecords(in_sf, "10", AccountRecord(50, <<"A">>))])

NextMonitor ==
    \/ GetSqlData
    \/ GetSalesforceData
    \/ CompareRecords
    \/ GenerateReport

SpecMonitor == InitMonitor /\ [][NextMonitor]_vars

---------------------------------------------------------------------------
(* Properties *)

\* the selector has returned
Selected == pc \notin {"find_sections", "select"}

\* the cross-section mapping of lines 226-227 has run
Mapped == pc \notin {"find_sections", "select", "detect_all", "offset", "map"}

\* the run is over: the output is written or an exception ended it
Ended == pc = "done" \/ fault # "none"

\* the columns of the ARR section whose header is a period, as a set
ArrCandidates ==
    {idx \in sections.arr_start..(sections.netchange_start - 1) :
        is_valid_period(df[idx + 1].header)}

\* the candidates of the ARR section whose count meets the threshold
ArrQualifying == {idx \in ArrCandidates : df[idx + 1].nonnull >= min_data_rows}

StrictlyIncreasing(l) == \A i \in 1..(Len(l) - 1) : l[i] < l[i + 1]

Elems(l) == {l[i] : i \in 1..Len(l)}

Min(a, b) == IF a < b THEN a ELSE b

\* C1: the trailing-window selector returns at most 12 column indices, in
\* strictly increasing column order, each with a non-empty data-row count of at
\* least the threshold.
C1_WindowBounded ==
    Selected =>
        /\ Len(arr_indices) <= 12
        /\ StrictlyIncreasing(arr_indices)
        /\ \A i \in 1..Len(arr_indices) : df[arr_indices[i] + 1].nonnull >= min_data_rows

\* C1 witness: more than 12 columns qualify and the selector has returned 12
C1_Witness ==
    /\ Selected
    /\ Cardinality(ArrQualifying) > 12
    /\ Len(arr_indices) = 12

\* C2: the window is exactly the last min(12, q) of the q qualifying candidates:
\* it holds only qualifying candidates, min(12, q) of them, in column order, and
\* every qualifying candidate left out lies to the left of all returned ones.
C2_WindowIsLastQualifying ==
    Selected =>
        /\ StrictlyIncreasing(arr_indices)
        /\ Elems(arr_indices) \subseteq ArrQualifying
        /\ Len(arr_indices) = Min(12, Cardinality(ArrQualifying))
        /\ \A x \in ArrQualifying \ Elems(arr_indices) :
              \A y \in Elems(arr_indices) : x < y

\* C2 witness: fewer than 12 qualify, with a sparse candidate between two of
\* them, and all of them are returned
C2_Witness ==
    /\ Selected
    /\ Cardinality(ArrQualifying) \in 2..11
    /\ Elems(arr_indices) = ArrQualifying
    /\ \E x \in ArrCandidates \ ArrQualifying :
          \E a, b \in ArrQualifying : a < x /\ x < b

\* C3 (as claimed): each non-reference window is as long as the ARR window when
\* its section has at least offset + 12 candidates, and never longer than it.
C3_Claim ==
    Mapped =>
        /\ Len(netchange_indices) <= Len(arr_indices)
        /\ Len(reason_indices) <= Len(arr_indices)
        /\ (Len(netchange_all_periods) >= relative_start_pos + 12
              => Len(netchange_indices) = Len(arr_indices))
        /\ (Len(reason_all_periods) >= relative_start_pos + 12
              => Len(reason_indices) = Len(arr_indices))

\* the 1-based positions, in the ARR period columns, of those that qualify
QualifyingPositions ==
    {i \in 1..Len(arr_all_periods) :
        df[arr_all_periods[i] + 1].nonnull >= min_data_rows}

\* C4: when the qualifying ARR columns are the candidates at relative positions
\* k..k+11, the ARR window is those positions, the offset is k, and a section
\* with as many candidates selects its own candidates at positions k..k+11.
C4_AlignedWindow ==
    Mapped =>
        \A k \in 0..Len(arr_all_periods) :
            QualifyingPositions = (k + 1)..(k + 12) =>
                /\ arr_indices = SubSeq(arr_all_periods, k + 1, k + 12)
                /\ relative_start_pos = k
                /\ (Len(netchange_all_periods) = Len(arr_all_periods)
                      => netchange_indices = SubSeq(netchange_all_periods, k + 1, k + 12))
                /\ (Len(reason_all_periods) = Len(arr_all_periods)
                      => reason_indices = SubSeq(reason_all_periods, k + 1, k + 12))

\* C4 witness: 14 candidates per section, positions 0 and 1 sparse, the other
\* 12 dense, and the run has written its output
C4_Witness ==
    /\ pc = "done"
    /\ Len(arr_all_periods) = 14
    /\ Len(netchange_all_periods) = 14
    /\ Len(reason_all_periods) = 14
    /\ QualifyingPositions = 3..14
    /\ relative_start_pos = 2

\* a diagnostic of a section that cannot supply the full window
IsMismatchDiagnostic(w) == w # "WARNING: Only found periods with data"

\* C5 (as claimed): a section with fewer than offset + 12 candidates gets the
\* candidates from the offset onward, a mismatch diagnostic is reported and the
\* run ends without a fault.
C5_Claim ==
    (Ended /\ Mapped) =>
        /\ (Len(netchange_all_periods) < relative_start_pos + 12 =>
              /\ netchange_indices = SubSeq(netchange_all_periods, relative_start_pos + 1,
                                            Len(netchange_all_periods))
              /\ \E w \in warnings : IsMismatchDiagnostic(w)
              /\ fault = "none")
        /\ (Len(reason_all_periods) < relative_start_pos + 12 =>
              /\ reason_indices = SubSeq(reason_all_periods, relative_start_pos + 1,
                                         Len(reason_all_periods))
              /\ \E w \in warnings : IsMismatchDiagnostic(w)
              /\ fault = "none")

\* a required section label is absent from the grid
LabelMissing == \E i \in 1..4 : \A c \in 1..Len(df) : df[c].label # AllLabels[i]

C7_Claim ==
    (Selected /\ Cardinality(ArrQualifying) < 12) =>
        /\ Elems(arr_indices) = ArrQualifying
        /\ "WARNING: Only found periods with data" \in warnings
        /\ ~(pc = "offset" /\ fault # "none")

\* the period columns of the three sections are computed
Detected == pc \notin {"find_sections", "select", "detect_all"}

\* the three sections as <<start, end, detected period columns>>
DetectedSections ==
    {<<sections.arr_start, sections.netchange_start, arr_all_periods>>,
     <<sections.netchange_start, sections.reason_start, netchange_all_periods>>,
     <<sections.reason_start, sections.filters_start, reason_all_periods>>}

\* the number written by the digits of s at positions a..b, or -1
NumberAt(s, a, b) ==
    IF b <= Len(s) /\ \A i \in a..b : IsDigit(s[i])
    THEN IntOf(SubSeq(s, a, b)) ELSE 0 - 1

\* a text cell "YYYY.MM" of a year in 2017..2030 and a month in 01..12
IsPeriodText(cell) ==
    /\ cell.t = "str"
    /\ Len(cell.s) = 7
    /\ cell.s[5] = "."
    /\ NumberAt(cell.s, 1, 4) \in 2017..2030
    /\ NumberAt(cell.s, 6, 7) \in 1..12

\* a text cell "YYYY.M" of a year in 2017..2030 and a month in 1..9
IsShortPeriodText(cell) ==
    /\ cell.t = "str"
    /\ Len(cell.s) = 6
    /\ cell.s[5] = "."
    /\ NumberAt(cell.s, 1, 4) \in 2017..2030
    /\ NumberAt(cell.s, 6, 6) \in 1..9

\* a numeric cell year.month of a year in 2017..2030 and a month in 1..12
IsPeriodNumber(cell) ==
    /\ cell.t = "float"
    /\ cell.v \div 100 \in 2017..2030
    /\ cell.v % 100 \in 1..12

\* a header that does not parse as a period: an empty cell, a text with no
\* separator, a text whose part before the separator is no year of the range
FailsToParse(cell) ==
    \/ cell.t = "nan"
    \/ /\ cell.t = "str"
       /\ \/ \A i \in 1..Len(cell.s) : cell.s[i] # "."
          \/ \E i \in 1..Len(cell.s) :
                /\ cell.s[i] = "."
                /\ \A j \in 1..(i - 1) : cell.s[j] # "."
                /\ NumberAt(cell.s, 1, i - 1) \notin 2017..2030

\* C8: in each section range [start, end) the detector returns indices of the
\* range only, in increasing order, none of a header that fails to parse, and
\* every column with a well-formed period text, whatever precedes it.
C8_ScanSkipsUnparsable ==
    Detected =>
        \A sec \in DetectedSections :
            /\ StrictlyIncreasing(sec[3])
            /\ \A idx \in Elems(sec[3]) :
                  /\ sec[1] <= idx /\ idx < sec[2]
                  /\ ~FailsToParse(df[idx + 1].header)
            /\ \A idx \in sec[1]..(sec[2] - 1) :
                  IsPeriodText(df[idx + 1].header) => idx \in Elems(sec[3])

\* C8 witness: a header whose parse raises, an empty header and a title precede
\* a period column of the ARR section, and the period column is returned
C8_Witness ==
    /\ Detected
    /\ \E i, j, k, l \in sections.arr_start..(sections.netchange_start - 1) :
          /\ i < l /\ j < l /\ k < l
          /\ df[i + 1].header = StrCell(Chars_FY)
          /\ df[j + 1].header = NaNCell
          /\ df[k + 1].header = StrCell(Chars_Total)
          /\ IsPeriodText(df[l + 1].header)
          /\ l \in Elems(arr_all_periods)

\* C9 (as claimed): every column whose header encodes year.month with the year
\* in 2017..2030 and the month in 1..12, as text or as a number, is detected.
C9_Claim ==
    Detected =>
        \A sec \in DetectedSections :
            \A idx \in sec[1]..(sec[2] - 1) :
                (\/ IsPeriodText(df[idx + 1].header)
                 \/ IsShortPeriodText(df[idx + 1].header)
                 \/ IsPeriodNumber(df[idx + 1].header))
                    => idx \in Elems(sec[3])

\* the starting period is resolved
StartDetected == pc \in {"period_names", "build", "write", "done"}

\* the header cell of the first column of the ARR window
FirstWindowCell == df[arr_indices[1] + 1].header

\* the header cell of the last column of the ARR window
LastWindowCell == df[arr_indices[Len(arr_indices)] + 1].header

\* C10: from the text of the period cell the month is the digits after the
\* separator: two characters are the month number, one character is that digit
\* ('2025.1' is January, never October).
C10_TextMonthLiteral ==
    StartDetected =>
        /\ IsPeriodText(FirstWindowCell) =>
              start_period = <<NumberAt(FirstWindowCell.s, 1, 4),
                               NumberAt(FirstWindowCell.s, 6, 7)>>
        /\ IsShortPeriodText(FirstWindowCell) =>
              start_period = <<NumberAt(FirstWindowCell.s, 1, 4),
                               NumberAt(FirstWindowCell.s, 6, 6)>>

\* C10 witness: the window runs from the cell '2025.1' to the cell '2025.12' and
\* the starting period is January 2025
C10_Witness ==
    /\ pc = "done"
    /\ FirstWindowCell = StrCell(<<"2", "0", "2", "5", ".", "1">>)
    /\ LastWindowCell = StrCell(<<"2", "0", "2", "5", ".", "1", "2">>)
    /\ start_period = <<2025, 1>>


\* a number whose text has one digit after the '.': 2025.1, which is January
\* or October with the trailing zero dropped
IsAmbiguousNumber(cell) ==
    /\ cell.t = "float"
    /\ Len(Part1(StrOfFloat(cell.v))) = 1
    /\ Part1(StrOfFloat(cell.v)) # <<"0">>

\* C11 (as claimed): when the first window column's period is a number with a
\* single digit after the '.', the resolver returns no definite (year, month).
C11_Claim ==
    StartDetected => ~IsAmbiguousNumber(FirstWindowCell)

\* the long ARR table is built
ArrPivoted == pc \in {"pivot_netchange", "pivot_reason", "write_pivot", "done"} /\ script # MAIN

\* the long Net Change table is built
NetChangePivoted == pc \in {"pivot_reason", "write_pivot", "done"} /\ script # MAIN

\* the long Change Reason table is built
ReasonPivoted ==
    /\ script # MAIN
    /\ pc \in {"write_pivot", "done"} \/ (pc = "pivot_reason" /\ fault = "TypeError")

\* the Period value of period p in the output of the script
PeriodLabel(p) == IF script = FINAL THEN period_dates[p] ELSE period_names[p]

\* the records of a table for source row i and period p
RecordsOf(table, i, p) ==
    {k \in 1..Len(table) : table[k].row = i /\ table[k].period = PeriodLabel(p)}

\* the pairs (retained row, period)
Pairs == (1..Len(df_filtered)) \X (1..Len(period_names))

\* the pairs whose cell in a section is not empty
NonEmptyPairs(section) == {q \in Pairs : df_filtered[q[1]][section][q[2]].t # "nan"}

\* C12: the ARR table holds exactly one record for each (retained row, period)
\* whose ARR cell is not empty, with that cell's value, and none for an empty
\* cell; the Net Change and Change Reason tables hold exactly one record for
\* every (retained row, period), empty cell or not: rows x periods records.
C12_RecordsPerPair ==
    /\ ArrPivoted =>
          /\ \A q \in Pairs :
                Cardinality(RecordsOf(arr_pivoted, q[1], q[2])) =
                    IF q \in NonEmptyPairs("arr") THEN 1 ELSE 0
          /\ \A k \in 1..Len(arr_pivoted) :
                \E q \in NonEmptyPairs("arr") :
                    /\ k \in RecordsOf(arr_pivoted, q[1], q[2])
                    /\ arr_pivoted[k].value = df_filtered[q[1]].arr[q[2]]
                    /\ arr_pivoted[k].id = df_filtered[q[1]].id
                    /\ arr_pivoted[k].product = df_filtered[q[1]].product
    /\ NetChangePivoted =>
          /\ Len(netchange_pivoted) = Len(df_filtered) * Len(period_names)
          /\ \A q \in Pairs :
                /\ Cardinality(RecordsOf(netchange_pivoted, q[1], q[2])) = 1
                /\ \A k \in RecordsOf(netchange_pivoted, q[1], q[2]) :
                      netchange_pivoted[k].value = df_filtered[q[1]].netchange[q[2]]
    /\ ReasonPivoted =>
          /\ Len(reason_pivoted) = Len(df_filtered) * Len(period_names)
          /\ \A q \in Pairs :
                Cardinality(RecordsOf(reason_pivoted, q[1], q[2])) = 1

\* C12 witness: a run written with two retained rows, ARR cells both empty and
\* not, and empty Net Change cells: fewer ARR records than pairs, and a Net
\* Change record for every pair
C12_Witness ==
    /\ pc = "done"
    /\ script = FINAL
    /\ Len(df_filtered) = 2
    /\ NonEmptyPairs("arr") # {}
    /\ NonEmptyPairs("arr") # Pairs
    /\ NonEmptyPairs("netchange") # Pairs
    /\ Len(arr_pivoted) = Cardinality(NonEmptyPairs("arr"))
    /\ Len(netchange_pivoted) = Cardinality(Pairs)
    /\ Len(reason_pivoted) = Cardinality(Pairs)

\* the identifier cell holds a number
IsNumericId(cell) == cell.t \in {"int", "float"}

\* the identifier cells of the rows of the output tables
OutputIds ==
    UNION {{sheets[k].rows[j].id : j \in 1..Len(sheets[k].rows)} : k \in 1..Len(sheets)}
    \cup {arr_pivoted[k].id : k \in 1..Len(arr_pivoted)}
    \cup {netchange_pivoted[k].id : k \in 1..Len(netchange_pivoted)}
    \cup {reason_pivoted[k].id : k \in 1..Len(reason_pivoted)}

\* C13 (as claimed): in every run of every script, no row of an output table
\* comes from a source row whose identifier cell is not numeric (empty, text,
\* or the header literal 'SF #').
C13_Claim ==
    \A id \in OutputIds : IsNumericId(id)

\* the records of the three long tables
AllRecords ==
    {arr_pivoted[k] : k \in 1..Len(arr_pivoted)}
    \cup {netchange_pivoted[k] : k \in 1..Len(netchange_pivoted)}
    \cup {reason_pivoted[k] : k \in 1..Len(reason_pivoted)}

HasUnderscore(text) == \E j \in 1..Len(text) : text[j] = "_"

\* C14: in the output of the FINAL script, two records whose Product holds no
\* '_' have the same AccountProductKey if and only if they have the same
\* AccountNumber and the same Product; the key is the identifier, '_', the
\* Product.
C14_KeyCollisionFree ==
    script = FINAL =>
        \A x, y \in AllRecords :
            (~HasUnderscore(x.product) /\ ~HasUnderscore(y.product)) =>
                /\ x.key = y.key <=> (x.id = y.id /\ x.product = y.product)
                /\ x.key = astype_str(x.id) \o <<"_">> \o x.product

\* C14 witness: the written output holds the accounts 1 and 12 with the
\* Products '2A' and 'A', whose keys '1_2A' and '12_A' differ
C14_Witness ==
    /\ pc = "done"
    /\ script = FINAL
    /\ \E x, y \in AllRecords :
          /\ x.id = IntCell(1) /\ x.product = <<"2", "A">>
          /\ y.id = IntCell(12) /\ y.product = <<"A">>
          /\ x.key = <<"1", "_", "2", "A">>
          /\ y.key = <<"1", "2", "_", "A">>

Dash == StrCell(<<"-">>)

NoChange == StrCell(<<"N", "o", " ", "C", "h", "a", "n", "g", "e">>)

\* the identifier, key and Product of record x are those of its source row
SameIdentity(x) ==
    /\ x.id = df_filtered[x.row].id
    /\ x.product = df_filtered[x.row].product
    /\ x.key = IF script = FINAL
               THEN astype_str(df_filtered[x.row].id) \o <<"_">> \o df_filtered[x.row].product
               ELSE <<>>

\* C15: in the Change Reason table a value that is the text '-' becomes
\* 'No Change' and every other value, an empty cell and a text holding a '-'
\* included, is the source cell; the values of the ARR and Net Change tables
\* and the identifier, key, Product and period of every record are the
\* source's.
C15_SentinelReplacedOnly ==
    /\ ReasonPivoted =>
          \A q \in Pairs : \A k \in RecordsOf(reason_pivoted, q[1], q[2]) :
              /\ reason_pivoted[k].value =
                    IF df_filtered[q[1]].reason[q[2]] = Dash THEN NoChange
                    ELSE df_filtered[q[1]].reason[q[2]]
              /\ SameIdentity(reason_pivoted[k])
    /\ NetChangePivoted =>
          \A q \in Pairs : \A k \in RecordsOf(netchange_pivoted, q[1], q[2]) :
              /\ netchange_pivoted[k].value = df_filtered[q[1]].netchange[q[2]]
              /\ SameIdentity(netchange_pivoted[k])
    /\ ArrPivoted =>
          \A q \in Pairs : \A k \in RecordsOf(arr_pivoted, q[1], q[2]) :
              /\ arr_pivoted[k].value = df_filtered[q[1]].arr[q[2]]
              /\ SameIdentity(arr_pivoted[k])

\* C15 witness: a written Change Reason table with 'No Change' where the
\* source had '-' and with the text 'U-p' kept, beside a Net Change table that
\* still holds '-'
C15_Witness ==
    /\ pc = "done"
    /\ \E i \in 1..Len(df_filtered), p \in 1..Len(period_names) :
          df_filtered[i].reason[p] = Dash
    /\ \E k \in 1..Len(reason_pivoted) : reason_pivoted[k].value = NoChange
    /\ \E k \in 1..Len(reason_pivoted) :
          reason_pivoted[k].value = StrCell(<<"U", "-", "p">>)
    /\ \A k \in 1..Len(reason_pivoted) : reason_pivoted[k].value # Dash
    /\ \E k \in 1..Len(netchange_pivoted) : netchange_pivoted[k].value = Dash

\* the month a period text of the output stands for, counted from year 0:
\* 'YYYY-MM-DD' and 'YYYY.MM' hold the year at 1..4 and the month at 6..7
PeriodOrdinal(text) == NumberAt(text, 1, 4) * 12 + NumberAt(text, 6, 7)

\* x is not after y on (identifier, Product, period)
InOrder(x, y) ==
    \/ x.id.v < y.id.v
    \/ /\ x.id.v = y.id.v
       /\ \/ str_less(x.product, y.product)
          \/ /\ x.product = y.product
             /\ PeriodOrdinal(x.period) <= PeriodOrdinal(y.period)

\* every record of the table is not after the next one
IsSorted(table) == \A k \in 1..(Len(table) - 1) : InOrder(table[k], table[k + 1])

\* C16: every long table is sorted ascending by (identifier, Product, period),
\* the periods in chronological order; the ARR table is sorted after its
\* records of empty cells are removed.
C16_TablesSorted ==
    /\ ArrPivoted => IsSorted(arr_pivoted)
    /\ NetChangePivoted => IsSorted(netchange_pivoted)
    /\ ReasonPivoted => IsSorted(reason_pivoted)

\* C16 witness: the grid holds account 12 before account 1; the written tables
\* start with account 1, and the ARR table has lost the records of its empty
\* cells
C16_Witness ==
    /\ pc = "done"
    /\ Len(df_filtered) = 2
    /\ df_filtered[1].id = IntCell(12)
    /\ df_filtered[2].id = IntCell(1)
    /\ arr_pivoted[1].id = IntCell(1)
    /\ netchange_pivoted[1].id = IntCell(1)
    /\ reason_pivoted[Len(reason_pivoted)].id = IntCell(12)
    /\ Len(arr_pivoted) < Len(netchange_pivoted)

\* period_to_last_day has run on every period name
DatesMapped == script = FINAL /\ pc \notin {"filter", "dates"}

\* period_to_last_day has raised
DatesFailed == script = FINAL /\ pc = "dates" /\ fault # "none"

\* the text is YYYY, then the separator, then MM, the year in the range and
\* the month in 01..12
IsToken(text, separator) ==
    /\ Len(text) = 7
    /\ text[5] = separator
    /\ NumberAt(text, 1, 4) \in YEAR_MIN..YEAR_MAX
    /\ NumberAt(text, 6, 7) \in 1..12

\* the days of the months of a year that is not a leap year
DaysInMonth == <<31, 28, 31, 30, 31, 30, 31, 31, 30, 31, 30, 31>>

\* the leap years of 1901..2099
IsLeapYear(year) == year % 4 = 0

\* the last calendar day of the month
LastDay(year, month) ==
    IF month = 2 /\ IsLeapYear(year) THEN 29 ELSE DaysInMonth[month]

\* the text 'YYYY-MM-DD' of the last day of the month the token names
LastDate(text) ==
    SubSeq(text, 1, 4) \o <<"-">> \o SubSeq(text, 6, 7) \o <<"-">>
    \o NatChars(LastDay(NumberAt(text, 1, 4), NumberAt(text, 6, 7)))

Found == pc # "find_sections"

\* the keys of the sections, in the order of AllLabels
SectionKeys == <<"arr_start", "netchange_start", "reason_start", "filters_start">>

\* the 0-based indices of the columns whose header-row cell is the text
TitledInRow0(text) == {c - 1 : c \in {i \in 1..Len(df) : df[i].header = StrCell(text)}}

\* the 0-based indices of the columns whose own label is the label
Labelled(label) == {c - 1 : c \in {i \in 1..Len(df) : df[i].label = label}}

Max(S) == CHOOSE x \in S : \A y \in S : y <= x

\* C19 (as claimed): a section starts at the column whose header-row (row 0)
\* cell is the sentinel text, whatever the column's own label; with no such
\* cell the section is not found.
C19_Claim ==
    Found =>
        \A sec \in 1..4 :
            sections[SectionKeys[sec]] =
                IF TitledInRow0(LabelChars[sec]) = {} THEN None
                ELSE Max(TitledInRow0(LabelChars[sec]))

\* C19 (amended): a section starts at the last column whose own label is
\* exactly the sentinel text; a label that differs in case or by blanks around
\* it is not matched, and the header-row cell plays no part: a column with a
\* synthetic label is not a section start even when its header-row cell is
\* the sentinel text.
C19_MatchesColumnLabel ==
    Found =>
        \A sec \in 1..4 :
            /\ sections[SectionKeys[sec]] =
                  IF Labelled(AllLabels[sec]) = {} THEN None
                  ELSE Max(Labelled(AllLabels[sec]))
            /\ sections[SectionKeys[sec]] \notin
                  Labelled(LowerLabel(AllLabels[sec]))
                  \cup Labelled(PaddedLabel(AllLabels[sec]))
                  \cup Labelled("Unnamed")

\* C19 witness: the title column of the ARR section has a synthetic label and
\* the sentinel text in its header-row cell, and no ARR section is found
C19_Witness ==
    /\ Found
    /\ \E c \in TitledInRow0(LabelChars[1]) : df[c + 1].label = "Unnamed"
    /\ Labelled(ARR_LABEL) = {}
    /\ sections.arr_start = None
    /\ sections.netchange_start # None

\* every sentinel label is found
AllFound == \A sec \in 1..4 : sections[SectionKeys[sec]] # None

\* the end of the section that starts at start: the start of the next section
\* in column order, or the width of the grid
SectionEnd(start) ==
    LET later == {sections[SectionKeys[sec]] : sec \in 1..4} \cap ((start + 1)..Len(df))
    IN  IF later = {} THEN Len(df) ELSE CHOOSE x \in later : \A y \in later : x <= y

\* the period columns of the section that starts at start
PeriodColumnsFrom(start) ==
    {idx \in start..(SectionEnd(start) - 1) : IsPeriodText(df[idx + 1].header)}

\* C20 (as claimed): with all sentinel labels found, in whatever order from
\* left to right, the candidate period columns of each metric section are
\* those of the range from its start to the start of the next section in
\* column order (or the grid width), and no column is a candidate of two
\* sections.
C20_Claim ==
    (Detected /\ AllFound) =>
        /\ Elems(arr_all_periods) = PeriodColumnsFrom(sections.arr_start)
        /\ Elems(netchange_all_periods) = PeriodColumnsFrom(sections.netchange_start)
        /\ Elems(reason_all_periods) = PeriodColumnsFrom(sections.reason_start)
        /\ Elems(arr_all_periods) \cap Elems(netchange_all_periods) = {}
        /\ Elems(arr_all_periods) \cap Elems(reason_all_periods) = {}
        /\ Elems(netchange_all_periods) \cap Elems(reason_all_periods) = {}

\* the columns of the set to the right of column idx
After(S, idx) == {j \in S : j > idx}

\* C21: a candidate period column has data exactly when the number of
\* non-empty cells of its data rows (rows 1 and later) is at least the
\* threshold, the header-row cell not counted: a candidate is in the window
\* exactly when that count meets the threshold and fewer than 12 such
\* candidates lie to its right.
C21_DataRowsOnly ==
    Selected =>
        LET qualifying == ArrQualifying
            window     == Elems(arr_indices)
        IN  \A idx \in sections.arr_start..(sections.netchange_start - 1) :
                is_valid_period(df[idx + 1].header) =>
                    (idx \in window <=>
                        /\ df[idx + 1].nonnull >= min_data_rows
                        /\ Cardinality(After(qualifying, idx)) < WINDOW)

\* C21 witness: with the threshold 1000, a column with 999 non-empty data
\* cells under a non-empty header cell is left out, and a column with exactly
\* 1000 is selected
C21_Witness ==
    /\ Selected
    /\ min_data_rows = MIN_DATA_ROWS
    /\ \E idx \in ArrCandidates \ Elems(arr_indices) :
          /\ df[idx + 1].nonnull = MIN_DATA_ROWS - 1
          /\ df[idx + 1].header.t # "nan"
          /\ After(ArrQualifying, idx) = {}
    /\ \E idx \in Elems(arr_indices) : df[idx + 1].nonnull = MIN_DATA_ROWS

\* the 12 elements of l from 0-based position a on, or those there are
From(l, a) == SubSeq(l, a + 1, Min(a + WINDOW, Len(l)))

\* C22: the relative offset is assigned once, from the ARR section (the place
\* of the window's first column among the ARR period columns), before the
\* window of another section is selected or a data frame is built; it is not
\* assigned again, and the windows of the Net Change and Change Reason
\* sections are both taken at that offset.
C22_OffsetOnceBeforeUse ==
    [][/\ relative_start_pos' # relative_start_pos =>
              /\ relative_start_pos = None
              /\ netchange_indices = <<>> /\ reason_indices = <<>> /\ sheets = NoSheets
              /\ arr_all_periods[relative_start_pos' + 1] = arr_indices[1]
       /\ (netchange_indices' # netchange_indices \/ reason_indices' # reason_indices
           \/ sheets' # sheets) =>
              /\ relative_start_pos # None
              /\ relative_start_pos' = relative_start_pos
       /\ Mapped' =>
              /\ netchange_indices' = From(netchange_all_periods', relative_start_pos')
              /\ reason_indices' = From(reason_all_periods', relative_start_pos')]_vars

\* C22 witness: a finished run whose offset is 1, with 14 Net Change and 13
\* Change Reason period columns, both windows starting at their second
\* period column
C22_Witness ==
    /\ pc = "done"
    /\ relative_start_pos = 1
    /\ Len(netchange_all_periods) = 14
    /\ Len(reason_all_periods) = 13
    /\ netchange_indices[1] = netchange_all_periods[2]
    /\ reason_indices[1] = reason_all_periods[2]

\* the period names are generated
Named == script = MAIN /\ pc \in {"build", "write", "done"}

\* the text is four digits, '_', two digits
IsNameText(text) ==
    /\ Len(text) = 7
    /\ text[5] = "_"
    /\ \A i \in {1, 2, 3, 4, 6, 7} : IsDigit(text[i])

NameYear(text) == NumberAt(text, 1, 4)

NameMonth(text) == NumberAt(text, 6, 7)

\* C23: for a starting month in 1..12 the generated names are as many as asked
\* for (12 in the script); the first is the starting year and month, each
\* next one is the calendar month after the one before (January of the next
\* year after December), and every month is two digits in 01..12.
C23_ConsecutiveNames ==
    (Named /\ start_period[2] \in 1..12) =>
        /\ Len(period_names) = WINDOW
        /\ \A i \in 1..Len(period_names) :
              IsNameText(period_names[i]) /\ NameMonth(period_names[i]) \in 1..12
        /\ NameYear(period_names[1]) = start_period[1]
        /\ NameMonth(period_names[1]) = start_period[2]
        /\ \A i \in 1..(Len(period_names) - 1) :
              IF NameMonth(period_names[i]) = 12
              THEN /\ NameYear(period_names[i + 1]) = NameYear(period_names[i]) + 1
                   /\ NameMonth(period_names[i + 1]) = 1
              ELSE /\ NameYear(period_names[i + 1]) = NameYear(period_names[i])
                   /\ NameMonth(period_names[i + 1]) = NameMonth(period_names[i]) + 1

\* C23 witness: from November 2024 the names run over the end of the year
C23_Witness ==
    /\ Named
    /\ start_period = <<2024, 11>>
    /\ period_names[2] = <<"2", "0", "2", "4", "_", "1", "2">>
    /\ period_names[3] = <<"2", "0", "2", "5", "_", "0", "1">>
    /\ period_names[12] = <<"2", "0", "2", "5", "_", "1", "0">>


\* the listed pages the loop has gone through
Processed == {pages_to_delete[i] : i \in 1..page_i}

\* the ancestor titles of a listed page
AncestorTitles(title) == {hierarchy[title][i] : i \in 1..Len(hierarchy[title])}

\* the page lies where the running script's pages were moved to
InNewLocation(title) ==
    IF script = CLEANUP_PAGES
    THEN "Onboarding" \in AncestorTitles(title)
    ELSE "Cursor AI Setup" \in AncestorTitles(title)

\* C24: a cleanup script removes a listed page only after finding it and
\* reading its ancestors; cleanup_old_confluence_pages removes it only if no
\* ancestor is titled 'Onboarding', cleanup_old_cursor_pages only if an
\* ancestor is titled 'Onboarding' and none 'Cursor AI Setup'; so a page in
\* its new location, or one whose ancestors cannot be read, is never removed
C24_NewLocationKept ==
    script \in {CLEANUP_PAGES, CLEANUP_CURSOR} =>
        \A title \in DOMAIN hierarchy :
            title \in removed =>
                /\ title \in Processed
                /\ remote[title].find = "page"
                /\ remote[title].ancestors = "ok"
                /\ ~InNewLocation(title)
                /\ script = CLEANUP_PAGES => "Onboarding" \notin AncestorTitles(title)
                /\ script = CLEANUP_CURSOR =>
                       /\ "Onboarding" \in AncestorTitles(title)
                       /\ "Cursor AI Setup" \notin AncestorTitles(title)

\* a finished run of cleanup_old_cursor_pages that removed an old copy and,
\* having found a page in its new location, kept it
C24_Witness ==
    /\ script = CLEANUP_CURSOR
    /\ pc = "done"
    /\ removed # {}
    /\ \E title \in Processed :
          /\ remote[title].find = "page"
          /\ remote[title].ancestors = "ok"
          /\ InNewLocation(title)
          /\ "Onboarding" \in AncestorTitles(title)
          /\ title \notin removed

\* the offset of the reference window is known
OffsetKnown == script = MAIN /\ relative_start_pos # None

\* C25: the reference window with first relative position k and n columns is
\* exactly the reference candidates at positions k..k+n-1, whatever the
\* densities of the columns, so that the i-th column of an aligned window
\* sits at the relative position of the i-th reference column
C25_Claim ==
    OffsetKnown =>
        /\ relative_start_pos + Len(arr_indices) <= Len(arr_all_periods)
        /\ \A i \in 1..Len(arr_indices) :
              relative_start_pos + i <= Len(arr_all_periods) =>
                  arr_indices[i] = arr_all_periods[relative_start_pos + i]

\* the header cell encodes a year and a month
EncodesPeriod(cell) ==
    IsPeriodText(cell) \/ IsShortPeriodText(cell) \/ IsPeriodNumber(cell)

\* the (year, month) a header cell encodes
EncodedPeriod(cell) ==
    IF IsPeriodText(cell) THEN <<NumberAt(cell.s, 1, 4), NumberAt(cell.s, 6, 7)>>
    ELSE IF IsShortPeriodText(cell) THEN <<NumberAt(cell.s, 1, 4), NumberAt(cell.s, 6, 6)>>
    ELSE <<cell.v \div 100, cell.v % 100>>

\* the names of a window's columns are the periods of the columns' headers
NamesMatchHeaders(indices) ==
    \A i \in 1..Len(indices) :
        (i <= Len(period_names) /\ EncodesPeriod(df[indices[i] + 1].header)) =>
            /\ IsNameText(period_names[i])
            /\ <<NameYear(period_names[i]), NameMonth(period_names[i])>> =
                   EncodedPeriod(df[indices[i] + 1].header)

\* C26: for every position i of every section's window, the name
\* period_names[i] is the (year, month) of the header-row cell of the i-th
\* selected column, also when the selected columns are not calendar-consecutive
C26_Claim ==
    Named =>
        /\ NamesMatchHeaders(arr_indices)
        /\ NamesMatchHeaders(netchange_indices)
        /\ NamesMatchHeaders(reason_indices)

\* the resolver of the starting period raised an exception
StartFailed == script = MAIN /\ pc = "detect_start" /\ fault # "none"

\* C27: on the header cell of a detected period column (text or number)
\* detect_start_period_from_first_value raises no exception and returns a
\* year in 2017..2030 and a month in 1..12
C27_Claim ==
    /\ ~StartFailed
    /\ (script = MAIN /\ StartDetected) =>
           /\ start_period[1] \in YEAR_MIN..YEAR_MAX
           /\ start_period[2] \in 1..12

\* the table holds a record with the key and the period of record x
HasPartner(table, x) ==
    \E j \in 1..Len(table) : table[j].key = x.key /\ table[j].period = x.period

\* C28: in the output of the FINAL script every record of the ARR table has a
\* record with the same AccountProductKey and the same Period in the Net
\* Change table and in the Change Reason table
C28_JoinComplete ==
    script = FINAL =>
        /\ NetChangePivoted =>
              \A k \in 1..Len(arr_pivoted) : HasPartner(netchange_pivoted, arr_pivoted[k])
        /\ ReasonPivoted =>
              \A k \in 1..Len(arr_pivoted) : HasPartner(reason_pivoted, arr_pivoted[k])

\* C28 witness: a finished run in which an ARR record's partner in the Net
\* Change table is the record of an empty cell
C28_Witness ==
    /\ script = FINAL
    /\ pc = "done"
    /\ \E k \in 1..Len(arr_pivoted) : \E j \in 1..Len(netchange_pivoted) :
          /\ netchange_pivoted[j].key = arr_pivoted[k].key
          /\ netchange_pivoted[j].period = arr_pivoted[k].period
          /\ netchange_pivoted[j].value.t = "nan"
    /\ \E k \in 1..Len(arr_pivoted) : HasPartner(reason_pivoted, arr_pivoted[k])

\* no two records of the table have the same key and the same period
KeyPeriodUnique(table) ==
    \A j, k \in 1..Len(table) :
        (table[j].key = table[k].key /\ table[j].period = table[k].period) => j = k

\* C29: within each output table of the FINAL script the pair
\* (AccountProductKey, Period) identifies at most one record, also when two
\* retained source rows have the same account number and the same product
C29_Claim ==
    script = FINAL =>
        /\ ArrPivoted => KeyPeriodUnique(arr_pivoted)
        /\ NetChangePivoted => KeyPeriodUnique(netchange_pivoted)
        /\ ReasonPivoted => KeyPeriodUnique(reason_pivoted)

\* the two values are the same number or have the same text
SameValue(a, b) == a = b \/ astype_str(a) = astype_str(b)

\* the account was retrieved from both sources and all its compared fields agree
InSync(id) ==
    /\ id \in DOMAIN sql_data
    /\ id \in DOMAIN sf_data
    /\ \A i \in 1..Len(COMPARE_FIELDS) :
          SameValue(sql_data[id][COMPARE_FIELDS[i]], sf_data[id][COMPARE_FIELDS[i]])

\* C30: the monitor reports 'ALL RECORDS MATCH' only if every monitored
\* account was retrieved from the SQL view and from Salesforce and all its
\* compared fields agree; in particular not when the Salesforce query failed
C30_Claim ==
    (script = MONITOR /\ report = "ALL RECORDS MATCH") =>
        /\ salesforce.returncode = 0
        /\ \A i \in 1..Len(SAMPLE_IDS) : InSync(SAMPLE_IDS[i])
=========================================================================
